---------------------------- MODULE Spec2Model ----------------------------
(***************************************************************************)
(* Model of the BOM reconciliation backend: the name normalizer, the QA     *)
(* classifier and the extraction step that applies it, the SQLite           *)
(* knowledge store, the item matcher that runs over it, and the workflow    *)
(* registry of the router (backend/database/knowledge_base.py,              *)
(* backend/database/item_matcher.py, backend/agents/extraction_agent.py,    *)
(* backend/agents/agent_orchestrator.py, backend/routers/autonomous.py).    *)
(*                                                                         *)
(* Strings are sequences of characters over a small alphabet that has one   *)
(* representative of every class the normalizer distinguishes.  The other   *)
(* Python values a field can hold (None, True, False, a number, a dict) and *)
(* Missing, for a dictionary key that is absent, are one-element tuples of  *)
(* a token that is no character, so that they can stand where a string can. *)
(***************************************************************************)
EXTENDS Integers, Sequences, FiniteSets, TLC

VARIABLES
    items,          \* rows of table items, in rowid order
    seq,            \* sqlite_sequence entry of table items (AUTOINCREMENT)
    item_matches,   \* rows of table item_matches
    now,            \* CURRENT_TIMESTAMP, in whole seconds
    call,           \* the last call made: operation, arguments, exception caught
    ret,            \* the value that call returned
    issued,         \* history: the id and workflow of every committed INSERT, in order
    runs,           \* the calls of match_items_with_knowledge_base, by workflow id
    workflows,      \* the registry of the router: the entry of each workflow id
    loop            \* the event loop: its queue of ready tasks, the background tasks

vars == <<items, seq, item_matches, now, call, ret, issued, runs, workflows, loop>>

None == <<"None">>
Missing == <<"Missing">>
True == <<"True">>
False == <<"False">>
Zero == <<"int 0">>
Four == <<"int 4">>
EmptyDict == <<"{}">>
SomeDict == <<"{size: M6}">>

\* dict.get(key, default) of a value that may be Missing
get(v, default) == IF v = Missing THEN default ELSE v

\* bool(v), and the truth value "if v" and "v and w" test
truthy(v) == v \notin {None, False, <<>>, Zero, EmptyDict}

(***************************************************************************)
(* Bounds of the model.                                                     *)
(***************************************************************************)
MaxLen == 3         \* longest input string of the normalizer
MaxPrior == 4       \* rows that earlier runs left in table items
MaxNew == 2         \* rows the calls of one behaviour insert, all batches together
MaxTime == 1        \* seconds the clock advances
MaxRows == 3        \* rows of each table the statistics are computed from
MaxSupplier == 2    \* rows of the supplier BOM
MaxChunks == 3      \* chunks the translated text is split into

(***************************************************************************)
(* Characters.  "A" is an upper-case letter, "a" and "i" lower-case         *)
(* letters, "7" a digit, " " and "\t" whitespace, "-" punctuation.          *)
(* "I_DOT" is U+0130, whose lower case is the two characters "i" and        *)
(* U+0307 ("DOT_ABOVE", a combining mark: neither alphanumeric nor space).  *)
(* "P" and "p" are the two cases of a letter that only part numbers hold.   *)
(***************************************************************************)
InputChars == {"A", "a", "7", " ", "\t", "-", "I_DOT"}

isalnum(c) == c \in {"A", "a", "i", "7", "I_DOT", "P", "p"}

isspace(c) == c \in {" ", "\t"}

\* str.lower() of one character
lowerChar(c) ==
    CASE c = "A" -> <<"a">>
      [] c = "P" -> <<"p">>
      [] c = "I_DOT" -> <<"i", "DOT_ABOVE">>
      [] OTHER -> <<c>>

RECURSIVE lower(_)
lower(s) == IF s = <<>> THEN <<>> ELSE lowerChar(Head(s)) \o lower(Tail(s))

RECURSIVE lstrip(_)
lstrip(s) == IF s # <<>> /\ isspace(Head(s)) THEN lstrip(Tail(s)) ELSE s

RECURSIVE rstrip(_)
rstrip(s) ==
    IF s # <<>> /\ isspace(s[Len(s)]) THEN rstrip(SubSeq(s, 1, Len(s) - 1)) ELSE s

strip(s) == rstrip(lstrip(s))

\* ''.join(char for char in s if char.isalnum() or char.isspace())
keepAlnumSpace(s) == SelectSeq(s, LAMBDA c : isalnum(c) \/ isspace(c))

\* the first whitespace-free run of s, s not starting with whitespace
RECURSIVE firstWord(_)
firstWord(s) ==
    IF s = <<>> \/ isspace(Head(s)) THEN <<>> ELSE <<Head(s)>> \o firstWord(Tail(s))

\* str.split(): the maximal whitespace-free runs, in order
RECURSIVE split(_)
split(s) ==
    LET t == lstrip(s)
        w == firstWord(t)
    IN  IF t = <<>> THEN <<>> ELSE <<w>> \o split(SubSeq(t, Len(w) + 1, Len(t)))

\* ' '.join(words)
RECURSIVE joinSpace(_)
joinSpace(words) ==
    IF words = <<>> THEN <<>>
    ELSE IF Len(words) = 1 THEN words[1]
    ELSE words[1] \o <<" ">> \o joinSpace(Tail(words))

normalize_no_collapse(material_name) ==
    IF material_name = None \/ material_name = <<>> THEN <<>>
    ELSE keepAlnumSpace(strip(lower(material_name)))

normalize_no_lower(material_name) ==
    IF material_name = None \/ material_name = <<>> THEN <<>>
    ELSE joinSpace(split(keepAlnumSpace(strip(material_name))))

\* KnowledgeBase.normalize_material_name
normalize_material_name(material_name) ==
    IF material_name = None \/ material_name = <<>> THEN <<>>
    ELSE joinSpace(split(keepAlnumSpace(strip(lower(material_name)))))

RECURSIVE StringsUpTo(_)
StringsUpTo(n) ==
    IF n = 0 THEN {<<>>}
    ELSE LET shorter == StringsUpTo(n - 1)
         IN  shorter \cup {Append(s, c) : s \in {t \in shorter : Len(t) = n - 1},
                                          c \in InputChars}

NoCall == [op |-> "none"]

\* the workflows whose materials are matched, and a call of
\* match_items_with_knowledge_base that has not been made
Workflows == {"w1", "w2"}

NotCalled ==
    [pc |-> "idle", extracted_items |-> <<>>, supplier_bom |-> <<>>,
     new_item_ids |-> <<>>, add_err |-> "none", i |-> 1, enhanced_matches |-> <<>>,
     find_errs |-> <<>>, exception |-> "none", connection |-> "closed"]

NoRuns == [w \in Workflows |-> NotCalled]

\* the registry before any upload: no workflow id has an entry
NoEntry == [status |-> "no entry", current_stage |-> "no entry", progress |-> 0]
NoWorkflows == [w \in Workflows |-> NoEntry]

\* the event loop with nothing to run: no ready task, no background task;
\* orchestrator says whether the router could construct its services
IdleLoop ==
    [ready |-> <<>>, at |-> [w \in Workflows |-> "not added"], orchestrator |-> TRUE]

\* the state of a fresh store, before any call
FreshStore ==
    /\ items = <<>>
    /\ seq = 0
    /\ item_matches = <<>>
    /\ now = 0
    /\ issued = <<>>
    /\ runs = NoRuns
    /\ workflows = NoWorkflows
    /\ loop = IdleLoop

(***************************************************************************)
(* The normalizer as a pure function: any string up to MaxLen, or None.     *)
(***************************************************************************)
InitNormalize ==
    /\ FreshStore
    /\ call \in [op : {"input"}, arg : StringsUpTo(MaxLen) \cup {None}]
    /\ ret = None

Normalize ==
    /\ call.op = "input"
    /\ call' = [op |-> "normalize", arg |-> call.arg]
    /\ ret' = normalize_material_name(call.arg)
    /\ UNCHANGED <<items, seq, item_matches, now, issued, runs, workflows, loop>>

\* the normalizer applied to its own output, as the store and lookup paths
\* do with a name that was read back
NormalizeAgain ==
    /\ call.op = "normalize"
    /\ call' = [op |-> "renormalize", arg |-> ret, input |-> call.arg]
    /\ ret' = normalize_material_name(ret)
    /\ UNCHANGED <<items, seq, item_matches, now, issued, runs, workflows, loop>>

NextNormalize == Normalize \/ NormalizeAgain

SpecNormalize == InitNormalize /\ [][NextNormalize]_vars

(***************************************************************************)
(* The QA classifier: ExtractionAgent._classify_material.                   *)
(***************************************************************************)
Outcome(label, level, path, reasoning) ==
    [label |-> label, confidence_level |-> level, action_path |-> path,
     reasoning |-> reasoning]

\* the ten dictionaries _classify_material returns
CONSUMABLE_WITH_PN_SPEC_QTY ==
    Outcome("CONSUMABLE_WITH_PN_SPEC_QTY", "HIGH", "GREEN",
            "Consumable with PN, specifications, and quantity - Auto-Register")
CONSUMABLE_WITH_PN_QTY ==
    Outcome("CONSUMABLE_WITH_PN_QTY", "HIGH", "GREEN",
            "Consumable with PN and quantity - Auto-Register")
CONSUMABLE_NO_QTY ==
    Outcome("CONSUMABLE_NO_QTY", "MEDIUM", "AMBER",
            "Consumable with PN but no quantity - Auto with Flag")
CONSUMABLE_NO_PN ==
    Outcome("CONSUMABLE_NO_PN", "LOW", "RED",
            "Consumable mentioned but no part number - Human Intervention Required")
CONSUMABLE_OBSOLETE_PN ==
    Outcome("CONSUMABLE_OBSOLETE_PN", "LOW", "RED",
            "Obsolete part number detected - Human Intervention Required")
CONSUMABLE_PN_MISMATCH ==
    Outcome("CONSUMABLE_PN_MISMATCH", "LOW", "RED",
            "Part number mismatch detected - Human Intervention Required")
VENDOR_KIT_NO_PN ==
    Outcome("VENDOR_KIT_NO_PN", "LOW", "RED",
            "Vendor and kit mentioned but no PN - Human Intervention Required")
VENDOR_NAME_ONLY ==
    Outcome("VENDOR_NAME_ONLY", "MEDIUM", "AMBER",
            "Only vendor name mentioned - Auto with Flag")
PRE_ASSEMBLED_KIT ==
    Outcome("PRE_ASSEMBLED_KIT", "MEDIUM", "AMBER",
            "Pre-assembled kit mentioned - Auto with Flag")
NO_CONSUMABLE_MENTIONED ==
    Outcome("NO_CONSUMABLE_MENTIONED", "LOW", "RED",
            "No clear consumable/jigs/tools mentioned - Human Intervention Required")

\* an exception that leaves a function
Raise(exception) ==
    [label |-> "raised", confidence_level |-> "raised", action_path |-> "raised",
     reasoning |-> exception]

\* the rest of the chain, from the obsolete_pn test on
classify_tail(has_consumable, has_pn, has_vendor, has_kit, pn_mismatch, obsolete_pn) ==
    IF truthy(obsolete_pn) THEN CONSUMABLE_OBSOLETE_PN
    ELSE IF truthy(pn_mismatch) THEN CONSUMABLE_PN_MISMATCH
    ELSE IF has_vendor /\ truthy(has_kit) /\ ~has_pn THEN VENDOR_KIT_NO_PN
    ELSE IF has_vendor /\ ~truthy(has_consumable) THEN VENDOR_NAME_ONLY
    ELSE IF truthy(has_kit) THEN PRE_ASSEMBLED_KIT
    ELSE NO_CONSUMABLE_MENTIONED

\* _classify_material with the obsolete_pn test moved to the front
classify_obsolete_first(material_data) ==
    LET has_consumable == get(material_data.consumable_jigs_tools, False)
        has_pn == truthy(get(material_data.part_number, None))
        has_qty == truthy(get(material_data.quantity, None))
        has_specs == truthy(get(material_data.specifications, None))
        has_vendor == truthy(get(material_data.vendor_name, None))
        has_kit == get(material_data.kit_available, False)
        pn_mismatch == get(material_data.pn_mismatch, False)
        obsolete_pn == get(material_data.obsolete_pn, False)
    IN  IF truthy(obsolete_pn) THEN CONSUMABLE_OBSOLETE_PN
        ELSE IF truthy(has_consumable) /\ has_pn /\ has_qty /\ has_specs THEN
            CONSUMABLE_WITH_PN_SPEC_QTY
        ELSE IF truthy(has_consumable) /\ has_pn /\ has_qty THEN CONSUMABLE_WITH_PN_QTY
        ELSE IF truthy(has_consumable) /\ has_pn /\ ~has_qty THEN CONSUMABLE_NO_QTY
        ELSE IF truthy(has_consumable) /\ ~has_pn THEN CONSUMABLE_NO_PN
        ELSE classify_tail(has_consumable, has_pn, has_vendor, has_kit,
                           pn_mismatch, obsolete_pn)

\* _classify_material reading the flags with material_data[key]
classify_subscript(material_data) ==
    LET has_consumable == material_data.consumable_jigs_tools
        has_pn == truthy(get(material_data.part_number, None))
        has_qty == truthy(get(material_data.quantity, None))
        has_specs == truthy(get(material_data.specifications, None))
        has_vendor == truthy(get(material_data.vendor_name, None))
        has_kit == material_data.kit_available
        pn_mismatch == material_data.pn_mismatch
        obsolete_pn == material_data.obsolete_pn
    IN  IF Missing \in {has_consumable, has_kit, pn_mismatch, obsolete_pn} THEN
            Raise("KeyError")
        ELSE IF truthy(has_consumable) /\ has_pn /\ has_qty /\ has_specs THEN
            CONSUMABLE_WITH_PN_SPEC_QTY
        ELSE IF truthy(has_consumable) /\ has_pn /\ has_qty THEN CONSUMABLE_WITH_PN_QTY
        ELSE IF truthy(has_consumable) /\ has_pn /\ ~has_qty THEN CONSUMABLE_NO_QTY
        ELSE IF truthy(has_consumable) /\ ~has_pn THEN CONSUMABLE_NO_PN
        ELSE classify_tail(has_consumable, has_pn, has_vendor, has_kit,
                           pn_mismatch, obsolete_pn)

\* ExtractionAgent._classify_material
_classify_material(material_data) ==
    LET has_consumable == get(material_data.consumable_jigs_tools, False)
        has_pn == truthy(get(material_data.part_number, None))
        has_qty == truthy(get(material_data.quantity, None))
        has_specs == truthy(get(material_data.specifications, None))
        has_vendor == truthy(get(material_data.vendor_name, None))
        has_kit == get(material_data.kit_available, False)
        pn_mismatch == get(material_data.pn_mismatch, False)
        obsolete_pn == get(material_data.obsolete_pn, False)
    IN  IF truthy(has_consumable) /\ has_pn /\ has_qty /\ has_specs THEN
            CONSUMABLE_WITH_PN_SPEC_QTY
        ELSE IF truthy(has_consumable) /\ has_pn /\ has_qty THEN CONSUMABLE_WITH_PN_QTY
        ELSE IF truthy(has_consumable) /\ has_pn /\ ~has_qty THEN CONSUMABLE_NO_QTY
        ELSE IF truthy(has_consumable) /\ ~has_pn THEN CONSUMABLE_NO_PN
        ELSE IF truthy(obsolete_pn) THEN CONSUMABLE_OBSOLETE_PN
        ELSE IF truthy(pn_mismatch) THEN CONSUMABLE_PN_MISMATCH
        ELSE IF has_vendor /\ truthy(has_kit) /\ ~has_pn THEN VENDOR_KIT_NO_PN
        ELSE IF has_vendor /\ ~truthy(has_consumable) THEN VENDOR_NAME_ONLY
        ELSE IF truthy(has_kit) THEN PRE_ASSEMBLED_KIT
        ELSE NO_CONSUMABLE_MENTIONED

\* the values each field the classifier reads can hold
FlagValues == {True, False, Missing}
PartNumberValues == {Missing, None, <<>>, <<"P", "7">>}
QuantityValues == {Missing, None, Zero, Four}
SpecificationsValues == {Missing, EmptyDict, SomeDict}
VendorValues == {Missing, None, <<>>, <<"A", "a">>}

MaterialData ==
    [consumable_jigs_tools : FlagValues, part_number : PartNumberValues,
     quantity : QuantityValues, specifications : SpecificationsValues,
     vendor_name : VendorValues, kit_available : FlagValues,
     pn_mismatch : FlagValues, obsolete_pn : FlagValues]

InitClassify ==
    /\ FreshStore
    /\ call \in [op : {"input"}, arg : MaterialData]
    /\ ret = None

Classify ==
    /\ call.op = "input"
    /\ call' = [op |-> "classify", arg |-> call.arg]
    /\ ret' = _classify_material(call.arg)
    /\ UNCHANGED <<items, seq, item_matches, now, issued, runs, workflows, loop>>

\* _create_enhanced_material classifies the same material_data once per material;
\* a second call on the input of the last one
ClassifyAgain ==
    /\ call.op = "classify"
    /\ call' = [op |-> "reclassify", arg |-> call.arg, before |-> ret]
    /\ ret' = _classify_material(call.arg)
    /\ UNCHANGED <<items, seq, item_matches, now, issued, runs, workflows, loop>>

NextClassify == Classify \/ ClassifyAgain

SpecClassify == InitClassify /\ [][NextClassify]_vars


(***************************************************************************)
(* The knowledge store: class KnowledgeBase over the SQLite file.           *)
(*                                                                         *)
(* A row of table items keeps the columns the operations read.  A call      *)
(* that cannot reach or use the database (sqlite3.connect or execute        *)
(* raising OperationalError) is the input fault = TRUE of its action.       *)
(***************************************************************************)
Limit == 5

\* qa_material_name of the materials handed to the store: a name, an absent
\* key and a null
NameValues == {<<"A">>, Missing, None}

\* the materials handed to the store, of which it reads the name and the part
\* number; these have no part number
Materials == [qa_material_name : NameValues, part_number : {Missing}]

\* the material every earlier run stored: its name differs from <<"A">> and
\* has the same normalized form
PriorMaterial == [qa_material_name |-> <<"a", "-">>, part_number |-> Missing]

\* the names looked up: the two above, the empty string, a null, a name never
\* stored
QueryNames == {<<"A">>, <<"a", "-">>, <<>>, None, <<"7">>}

RECURSIVE SeqsUpTo(_, _)
SeqsUpTo(S, n) ==
    IF n = 0 THEN {<<>>}
    ELSE LET shorter == SeqsUpTo(S, n - 1)
         IN  shorter \cup {Append(q, x) : q \in {t \in shorter : Len(t) = n - 1}, x \in S}

\* the rowid without AUTOINCREMENT: one more than the largest rowid in the table
rowid_max_plus_one(rows, sequence) ==
    IF rows = <<>> THEN 1 ELSE rows[Len(rows)].id + 1

\* id INTEGER PRIMARY KEY AUTOINCREMENT: one more than the largest rowid the
\* table has ever held, which sqlite_sequence keeps
next_rowid(rows, sequence) == sequence + 1

\* the row written with its normalized_name column left as submitted
insert_row_raw(item, workflow_id, id, timestamp) ==
    [id |-> id,
     material_name |-> get(item.qa_material_name, <<>>),
     normalized_name |-> get(item.qa_material_name, <<>>),
     part_number |-> get(item.part_number, None),
     workflow_id |-> workflow_id,
     created_at |-> timestamp]

\* the row one INSERT of add_items writes
insert_row(item, workflow_id, id, timestamp) ==
    [id |-> id,
     material_name |-> get(item.qa_material_name, <<>>),
     normalized_name |-> normalize_material_name(get(item.qa_material_name, <<>>)),
     part_number |-> get(item.part_number, None),
     workflow_id |-> workflow_id,
     created_at |-> timestamp]

\* material_name TEXT NOT NULL
violates_not_null(row) == row.material_name = None

\* the loop of add_items over the batch from position i on, inside one
\* transaction: db is [rows, sequence], added_ids the ids so far and
\* timestamps[i] the second in which the i-th INSERT runs
RECURSIVE insert_from(_, _, _, _, _, _)
insert_from(db, batch, i, workflow_id, timestamps, added_ids) ==
    IF i > Len(batch) THEN [db |-> db, added_ids |-> added_ids, err |-> "none"]
    ELSE LET id == next_rowid(db.rows, db.sequence)
             row == insert_row(batch[i], workflow_id, id, timestamps[i])
         IN  IF violates_not_null(row)
             THEN [db |-> db, added_ids |-> added_ids, err |-> "IntegrityError"]
             ELSE insert_from([rows |-> Append(db.rows, row), sequence |-> id],
                              batch, i + 1, workflow_id, timestamps,
                              Append(added_ids, id))

\* add_items that skips a material whose normalized name is already stored
RECURSIVE insert_dedup_from(_, _, _, _, _, _)
insert_dedup_from(db, batch, i, workflow_id, timestamps, added_ids) ==
    IF i > Len(batch) THEN [db |-> db, added_ids |-> added_ids, err |-> "none"]
    ELSE LET id == next_rowid(db.rows, db.sequence)
             row == insert_row(batch[i], workflow_id, id, timestamps[i])
         IN  IF violates_not_null(row)
             THEN [db |-> db, added_ids |-> added_ids, err |-> "IntegrityError"]
             ELSE IF \E k \in 1..Len(db.rows) :
                        db.rows[k].normalized_name = row.normalized_name
             THEN insert_dedup_from(db, batch, i + 1, workflow_id, timestamps, added_ids)
             ELSE insert_dedup_from([rows |-> Append(db.rows, row), sequence |-> id],
                                    batch, i + 1, workflow_id, timestamps,
                                    Append(added_ids, id))

add_items_dedup(db, batch, workflow_id, timestamps, fault) ==
    IF batch = <<>> THEN [db |-> db, ret |-> <<>>, err |-> "none"]
    ELSE IF fault THEN [db |-> db, ret |-> <<>>, err |-> "OperationalError"]
    ELSE LET done == insert_dedup_from(db, batch, 1, workflow_id, timestamps, <<>>)
         IN  IF done.err = "none"
             THEN [db |-> done.db, ret |-> done.added_ids, err |-> "none"]
             ELSE [db |-> db, ret |-> <<>>, err |-> done.err]

\* add_items as an upsert by normalized name: a material whose normalized
\* name is stored already overwrites the earliest such row and keeps its id
RECURSIVE upsert_from(_, _, _, _, _, _)
upsert_from(db, batch, i, workflow_id, timestamps, added_ids) ==
    IF i > Len(batch) THEN [db |-> db, added_ids |-> added_ids, err |-> "none"]
    ELSE LET id == next_rowid(db.rows, db.sequence)
             row == insert_row(batch[i], workflow_id, id, timestamps[i])
             same == {k \in 1..Len(db.rows) :
                         db.rows[k].normalized_name = row.normalized_name}
             old == CHOOSE k \in same : \A j \in same : k <= j
         IN  IF violates_not_null(row)
             THEN [db |-> db, added_ids |-> added_ids, err |-> "IntegrityError"]
             ELSE IF same # {}
             THEN upsert_from([db EXCEPT !.rows[old] =
                                   [row EXCEPT !.id = db.rows[old].id]],
                              batch, i + 1, workflow_id, timestamps,
                              Append(added_ids, db.rows[old].id))
             ELSE upsert_from([rows |-> Append(db.rows, row), sequence |-> id],
                              batch, i + 1, workflow_id, timestamps,
                              Append(added_ids, id))

add_items_upsert(db, batch, workflow_id, timestamps, fault) ==
    IF batch = <<>> THEN [db |-> db, ret |-> <<>>, err |-> "none"]
    ELSE IF fault THEN [db |-> db, ret |-> <<>>, err |-> "OperationalError"]
    ELSE LET done == upsert_from(db, batch, 1, workflow_id, timestamps, <<>>)
         IN  IF done.err = "none"
             THEN [db |-> done.db, ret |-> done.added_ids, err |-> "none"]
             ELSE [db |-> db, ret |-> <<>>, err |-> done.err]

\* add_items that commits after every row: a failure keeps the rows before it
add_items_commit_each(db, batch, workflow_id, timestamps, fault) ==
    IF batch = <<>> THEN [db |-> db, ret |-> <<>>, err |-> "none"]
    ELSE IF fault THEN [db |-> db, ret |-> <<>>, err |-> "OperationalError"]
    ELSE LET done == insert_from(db, batch, 1, workflow_id, timestamps, <<>>)
         IN  IF done.err = "none"
             THEN [db |-> done.db, ret |-> done.added_ids, err |-> "none"]
             ELSE [db |-> done.db, ret |-> <<>>, err |-> done.err]

\* add_items whose except clause returns the ids collected before the failure
add_items_partial_ids(db, batch, workflow_id, timestamps, fault) ==
    IF batch = <<>> THEN [db |-> db, ret |-> <<>>, err |-> "none"]
    ELSE IF fault THEN [db |-> db, ret |-> <<>>, err |-> "OperationalError"]
    ELSE LET done == insert_from(db, batch, 1, workflow_id, timestamps, <<>>)
         IN  IF done.err = "none"
             THEN [db |-> done.db, ret |-> done.added_ids, err |-> "none"]
             ELSE [db |-> db, ret |-> done.added_ids, err |-> done.err]

\* KnowledgeBase.add_items: the database after the call, the value returned
\* and the exception the except clause caught.  An exception leaves the
\* transaction uncommitted and the connection open: no other connection ever
\* sees its rows, and SQLite rolls the transaction back, sqlite_sequence
\* included, when the connection is reclaimed.  fault is a call that cannot
\* open or write the database, "database is locked" included.
add_items(db, batch, workflow_id, timestamps, fault) ==
    IF batch = <<>> THEN [db |-> db, ret |-> <<>>, err |-> "none"]
    ELSE IF fault THEN [db |-> db, ret |-> <<>>, err |-> "OperationalError"]
    ELSE LET done == insert_from(db, batch, 1, workflow_id, timestamps, <<>>)
         IN  IF done.err = "none"
             THEN [db |-> done.db, ret |-> done.added_ids, err |-> "none"]
             ELSE [db |-> db, ret |-> <<>>, err |-> done.err]

\* WHERE normalized_name = ?
where_normalized_name(rows, normalized_query) ==
    {rows[k] : k \in {j \in 1..Len(rows) : rows[j].normalized_name = normalized_query}}

\* ORDER BY created_at DESC: every listing of the rows in which created_at
\* never increases.  SQLite leaves the order of rows with equal created_at
\* unspecified, and CURRENT_TIMESTAMP has a resolution of one second.
RECURSIVE order_by_created_at_desc(_)
order_by_created_at_desc(S) ==
    IF S = {} THEN {<<>>}
    ELSE UNION { {<<r>> \o t : t \in order_by_created_at_desc(S \ {r})} :
                 r \in {x \in S : \A y \in S : y.created_at <= x.created_at} }

\* ORDER BY created_at ASC
RECURSIVE order_by_created_at_asc(_)
order_by_created_at_asc(S) ==
    IF S = {} THEN {<<>>}
    ELSE UNION { {<<r>> \o t : t \in order_by_created_at_asc(S \ {r})} :
                 r \in {x \in S : \A y \in S : y.created_at >= x.created_at} }

\* LIMIT n
limit(listing, n) == SubSeq(listing, 1, IF Len(listing) < n THEN Len(listing) ELSE n)

\* dict(zip(columns, match)) with match_type and confidence_score added; a
\* confidence is written in hundredths, 1.0 as 100
as_match(row) ==
    [id |-> row.id, material_name |-> row.material_name,
     normalized_name |-> row.normalized_name, part_number |-> row.part_number,
     workflow_id |-> row.workflow_id,
     created_at |-> row.created_at, match_type |-> "exact", confidence_score |-> 100]

matches_of(listing) == [k \in 1..Len(listing) |-> as_match(listing[k])]

\* find_similar_items without LIMIT 5
find_no_limit(rows, material_name, fault) ==
    IF fault THEN {[ret |-> <<>>, err |-> "OperationalError"]}
    ELSE LET normalized_query == normalize_material_name(material_name)
         IN  IF normalized_query = <<>> THEN {[ret |-> <<>>, err |-> "none"]}
             ELSE {[ret |-> matches_of(listing), err |-> "none"] :
                     listing \in order_by_created_at_desc(
                                     where_normalized_name(rows, normalized_query))}

\* find_similar_items with ORDER BY created_at ASC
find_oldest_first(rows, material_name, fault) ==
    IF fault THEN {[ret |-> <<>>, err |-> "OperationalError"]}
    ELSE LET normalized_query == normalize_material_name(material_name)
         IN  IF normalized_query = <<>> THEN {[ret |-> <<>>, err |-> "none"]}
             ELSE {[ret |-> matches_of(limit(listing, Limit)), err |-> "none"] :
                     listing \in order_by_created_at_asc(
                                     where_normalized_name(rows, normalized_query))}

\* KnowledgeBase.find_similar_items: the values the call can return, each with
\* the exception the except clause caught
find_similar_items(rows, material_name, fault) ==
    IF fault THEN {[ret |-> <<>>, err |-> "OperationalError"]}
    ELSE LET normalized_query == normalize_material_name(material_name)
         IN  IF normalized_query = <<>> THEN {[ret |-> <<>>, err |-> "none"]}
             ELSE {[ret |-> matches_of(limit(listing, Limit)), err |-> "none"] :
                     listing \in order_by_created_at_desc(
                                     where_normalized_name(rows, normalized_query))}

\* the database file after p earlier runs, each of which stored one material
\* under workflow "w0", one second apart, the last of them in second 0
RECURSIVE prior_db(_)
prior_db(p) ==
    IF p = 0 THEN [rows |-> <<>>, sequence |-> 0]
    ELSE add_items(prior_db(p - 1), <<PriorMaterial>>, "w0", <<p - 1>>, FALSE).db

shift_created_at(rows, by) ==
    [k \in 1..Len(rows) |-> [rows[k] EXCEPT !.created_at = @ - by]]

issued_by(rows) ==
    [k \in 1..Len(rows) |-> [id |-> rows[k].id, workflow_id |-> rows[k].workflow_id]]

\* construction: init_database creates the tables if the file has none and
\* keeps the rows of a file that exists
Init ==
    /\ \E p \in 0..MaxPrior :
          /\ items = shift_created_at(prior_db(p).rows, p - 1)
          /\ seq = prior_db(p).sequence
          /\ issued = issued_by(prior_db(p).rows)
    /\ item_matches = <<>>
    /\ now = 0
    /\ call = NoCall
    /\ ret = None
    /\ runs = NoRuns
    /\ workflows = NoWorkflows
    /\ loop = IdleLoop

\* the rows this behaviour's calls have inserted so far
new_rows(history) == Len(SelectSeq(history, LAMBDA h : h.workflow_id = "w1"))

\* CURRENT_TIMESTAMP is read by every INSERT: the second can change between
\* two rows of a batch.  turn is the number of rows written before it does,
\* Len(batch) when it does not.
Batches == SeqsUpTo(Materials, MaxNew)

AddItems ==
    \E batch \in Batches, fault \in BOOLEAN :
      \E turn \in 1..Len(batch) \cup {Len(batch)} :
        /\ new_rows(issued) + Len(batch) <= MaxNew
        /\ batch = <<>> => ~fault
        /\ turn < Len(batch) => now < MaxTime /\ ~fault
        /\ LET timestamps == [i \in 1..Len(batch) |-> IF i <= turn THEN now ELSE now + 1]
               done == add_items([rows |-> items, sequence |-> seq], batch,
                                 "w1", timestamps, fault)
           IN  /\ items' = done.db.rows
               /\ seq' = done.db.sequence
               /\ ret' = done.ret
               /\ issued' = issued \o [k \in 1..Len(done.ret) |->
                                           [id |-> done.ret[k], workflow_id |-> "w1"]]
               /\ call' = [op |-> "add_items", items |-> batch, err |-> done.err]
               /\ now' = IF turn < Len(batch) THEN now + 1 ELSE now
        /\ UNCHANGED <<item_matches, runs, workflows, loop>>

FindSimilarItems ==
    \E material_name \in QueryNames, fault \in BOOLEAN :
        \E found \in find_similar_items(items, material_name, fault) :
            /\ ret' = found.ret
            /\ call' = [op |-> "find_similar_items", material_name |-> material_name,
                        err |-> found.err]
            /\ UNCHANGED <<items, seq, item_matches, now, issued, runs, workflows, loop>>

\* clear_all_data without DELETE FROM item_matches
clear_items_only(db, matches, fault) ==
    IF fault THEN [db |-> db, matches |-> matches, err |-> "OperationalError"]
    ELSE [db |-> [rows |-> <<>>, sequence |-> db.sequence], matches |-> matches,
          err |-> "none"]

\* DELETE FROM item_matches, DELETE FROM items; sqlite_sequence is not touched
clear_all_data(db, matches, fault) ==
    IF fault THEN [db |-> db, matches |-> matches, err |-> "OperationalError"]
    ELSE [db |-> [rows |-> <<>>, sequence |-> db.sequence], matches |-> <<>>,
          err |-> "none"]

ClearAllData ==
    \E fault \in BOOLEAN :
        LET done == clear_all_data([rows |-> items, sequence |-> seq],
                                   item_matches, fault)
        IN  /\ items' = done.db.rows
            /\ seq' = done.db.sequence
            /\ item_matches' = done.matches
            /\ call' = [op |-> "clear_all_data", err |-> done.err]
            /\ ret' = None
            /\ UNCHANGED <<now, issued, runs, workflows, loop>>

\* a / b of two integers: the quotient as a fraction, or ZeroDivisionError
true_div(a, b) ==
    IF b = 0 THEN [raised |-> TRUE, num |-> 0, den |-> 1]
    ELSE [raised |-> FALSE, num |-> a, den |-> b]

times(q, n) == [q EXCEPT !.num = @ * n]

\* unique_matched_items / total_items * 100 with no test of total_items
match_rate_unguarded(unique_matched_items, total_items) ==
    times(true_div(unique_matched_items, total_items), 100)

\* (unique_matched_items / total_items * 100) if total_items > 0 else 0
match_rate(unique_matched_items, total_items) ==
    IF total_items > 0 THEN times(true_div(unique_matched_items, total_items), 100)
    ELSE [raised |-> FALSE, num |-> 0, den |-> 1]

StatsOnError ==
    [total_items |-> 0, total_workflows |-> 0, total_matches |-> 0,
     unique_matched_items |-> 0, match_rate |-> [num |-> 0, den |-> 1]]

\* get_processing_stats with the two counts of matches taken from table items
get_processing_stats_of_items(rows, matches, fault) ==
    LET total_items == Len(rows)
        total_workflows == Cardinality({rows[k].workflow_id : k \in 1..Len(rows)})
        total_matches == Len(rows)
        unique_matched_items == Cardinality({rows[k].id : k \in 1..Len(rows)})
        rate == match_rate(unique_matched_items, total_items)
    IN  IF fault THEN [ret |-> StatsOnError, err |-> "OperationalError"]
        ELSE IF rate.raised THEN [ret |-> StatsOnError, err |-> "ZeroDivisionError"]
        ELSE [ret |-> [total_items |-> total_items,
                       total_workflows |-> total_workflows,
                       total_matches |-> total_matches,
                       unique_matched_items |-> unique_matched_items,
                       match_rate |-> [num |-> rate.num, den |-> rate.den]],
              err |-> "none"]

\* KnowledgeBase.get_processing_stats: the dictionary returned and the
\* exception the except clause caught
get_processing_stats(rows, matches, fault) ==
    LET total_items == Len(rows)
        total_workflows == Cardinality({rows[k].workflow_id : k \in 1..Len(rows)})
        total_matches == Len(matches)
        unique_matched_items ==
            Cardinality({matches[k].original_item_id : k \in 1..Len(matches)})
        rate == match_rate(unique_matched_items, total_items)
    IN  IF fault THEN [ret |-> StatsOnError, err |-> "OperationalError"]
        ELSE IF rate.raised THEN [ret |-> StatsOnError, err |-> "ZeroDivisionError"]
        ELSE [ret |-> [total_items |-> total_items,
                       total_workflows |-> total_workflows,
                       total_matches |-> total_matches,
                       unique_matched_items |-> unique_matched_items,
                       match_rate |-> [num |-> rate.num, den |-> rate.den]],
              err |-> "none"]

GetProcessingStats ==
    \E fault \in BOOLEAN :
        LET done == get_processing_stats(items, item_matches, fault)
        IN  /\ ret' = done.ret
            /\ call' = [op |-> "get_processing_stats", err |-> done.err]
            /\ UNCHANGED <<items, seq, item_matches, now, issued, runs, workflows, loop>>

\* a second of wall-clock time passes
Tick ==
    /\ now < MaxTime
    /\ now' = now + 1
    /\ UNCHANGED <<items, seq, item_matches, call, ret, issued, runs, workflows, loop>>

Next == AddItems \/ FindSimilarItems \/ GetProcessingStats \/ ClearAllData \/ Tick

Spec == Init /\ [][Next]_vars

(***************************************************************************)
(* The statistics as a function of the two tables.  No operation of the     *)
(* store writes table item_matches, so the rows it is computed from are     *)
(* inputs: any rows a database file can hold, with original_item_id free    *)
(* of table items (SQLite does not enforce the foreign key).                *)
(***************************************************************************)
MatchRows == [original_item_id : 1..MaxRows]

InitStats ==
    /\ \E n \in 0..MaxRows :
          /\ items = prior_db(n).rows
          /\ seq = prior_db(n).sequence
          /\ issued = issued_by(prior_db(n).rows)
    /\ item_matches \in SeqsUpTo(MatchRows, MaxRows)
    /\ now = 0
    /\ call = NoCall
    /\ ret = None
    /\ runs = NoRuns
    /\ workflows = NoWorkflows
    /\ loop = IdleLoop

NextStats == GetProcessingStats \/ ClearAllData

SpecStats == InitStats /\ [][NextStats]_vars

(***************************************************************************)
(* The matcher: class ItemMatcher.  A score is a fraction of hundredths,    *)
(* 0.95 as 95/1 and 0.8 / 3 as 80/3: the quotient of two token counts is    *)
(* kept exact.  A dictionary with no key ({}) is the function with the      *)
(* empty domain.                                                           *)
(***************************************************************************)
MinimumThreshold == 30
SupplierPreferred == 70

\* a blank cell of the supplier sheet, as pandas reads it: a float, no string
NaN == <<"float nan">>

hundredths(n) == [raised |-> FALSE, num |-> n, den |-> 1]

\* q > n / 100
above(q, n) == q.num > n * q.den

\* q <= r
at_most(q, r) == q.num * r.den <= r.num * q.den

\* min(n / 100, q)
min_of(n, q) == IF above(q, n) THEN hundredths(n) ELSE q

max_of(a, b) == IF a > b THEN a ELSE b

\* set(s.split())
words(s) == {split(s)[k] : k \in 1..Len(split(s))}

empty(d) == DOMAIN d = {}

\* the confidence with the quotient of line 83 turned over: the longer token
\* count divided by the number of common words
confidence_inverted_ratio(material_name, part_number, supplier_desc, supplier_part) ==
    IF truthy(part_number) /\ truthy(supplier_part) /\ part_number = supplier_part
    THEN hundredths(95)
    ELSE IF truthy(material_name) /\ truthy(supplier_desc)
    THEN LET common_words == words(material_name) \cap words(supplier_desc)
         IN  IF common_words # {}
             THEN LET word_match_ratio ==
                          true_div(max_of(Len(split(material_name)),
                                          Len(split(supplier_desc))),
                                   Cardinality(common_words))
                  IN  min_of(90, times(word_match_ratio, 80))
             ELSE hundredths(0)
    ELSE hundredths(0)

\* the confidence with the part numbers compared without regard to case
confidence_part_number_folded(material_name, part_number, supplier_desc, supplier_part) ==
    IF truthy(part_number) /\ truthy(supplier_part) /\
       lower(part_number) = lower(supplier_part)
    THEN hundredths(95)
    ELSE IF truthy(material_name) /\ truthy(supplier_desc)
    THEN LET common_words == words(material_name) \cap words(supplier_desc)
         IN  IF common_words # {}
             THEN LET word_match_ratio ==
                          true_div(Cardinality(common_words),
                                   max_of(Len(split(material_name)),
                                          Len(split(supplier_desc))))
                  IN  min_of(90, times(word_match_ratio, 80))
             ELSE hundredths(0)
    ELSE hundredths(0)

\* the confidence one supplier row gets, lines 74-84
confidence_of(material_name, part_number, supplier_desc, supplier_part) ==
    IF truthy(part_number) /\ truthy(supplier_part) /\ part_number = supplier_part
    THEN hundredths(95)
    ELSE IF truthy(material_name) /\ truthy(supplier_desc)
    THEN LET common_words == words(material_name) \cap words(supplier_desc)
         IN  IF common_words # {}
             THEN LET word_match_ratio ==
                          true_div(Cardinality(common_words),
                                   max_of(Len(split(material_name)),
                                          Len(split(supplier_desc))))
                  IN  min_of(90, times(word_match_ratio, 80))
             ELSE hundredths(0)
    ELSE hundredths(0)

\* the dictionary appended for a supplier row, lines 87-92
supplier_match(supplier_item, confidence) ==
    [supplier_description |-> get(supplier_item.description, <<>>),
     supplier_part_number |-> get(supplier_item.part_number, <<>>),
     confidence_score |-> confidence,
     match_type |-> IF above(confidence, 90) THEN "part_number" ELSE "description"]

\* the loop over the supplier BOM from row k on: the matches appended, or the
\* AttributeError of .lower() on a description that is no string
RECURSIVE supplier_rows_from(_, _, _, _, _)
supplier_rows_from(material_name, part_number, supplier_bom, k, matches) ==
    IF k > Len(supplier_bom) THEN [ret |-> matches, err |-> "none"]
    ELSE IF get(supplier_bom[k].description, <<>>) \in {None, NaN}
    THEN [ret |-> <<>>, err |-> "AttributeError"]
    ELSE LET supplier_desc == lower(get(supplier_bom[k].description, <<>>))
             supplier_part == get(supplier_bom[k].part_number, <<>>)
             confidence == confidence_of(material_name, part_number,
                                         supplier_desc, supplier_part)
         IN  supplier_rows_from(material_name, part_number, supplier_bom, k + 1,
                 IF above(confidence, MinimumThreshold)
                 THEN Append(matches, supplier_match(supplier_bom[k], confidence))
                 ELSE matches)

\* sorted(matches, key=confidence_score)[::-1]: descending, equal scores in
\* the reverse of their order
RECURSIVE sorted_then_reversed(_)
sorted_then_reversed(matches) ==
    IF matches = <<>> THEN <<>>
    ELSE LET first == CHOOSE k \in 1..Len(matches) :
                        /\ \A j \in 1..Len(matches) :
                              at_most(matches[j].confidence_score,
                                      matches[k].confidence_score)
                        /\ \A j \in (k + 1)..Len(matches) :
                              ~at_most(matches[k].confidence_score,
                                       matches[j].confidence_score)
             rest == [j \in 1..(Len(matches) - 1) |->
                          IF j < first THEN matches[j] ELSE matches[j + 1]]
         IN  <<matches[first]>> \o sorted_then_reversed(rest)

\* sorted(matches, key=confidence_score, reverse=True): a stable sort, equal
\* scores keep their order
RECURSIVE sorted_by_confidence(_)
sorted_by_confidence(matches) ==
    IF matches = <<>> THEN <<>>
    ELSE LET first == CHOOSE k \in 1..Len(matches) :
                        /\ \A j \in 1..Len(matches) :
                              at_most(matches[j].confidence_score,
                                      matches[k].confidence_score)
                        /\ \A j \in 1..(k - 1) :
                              ~at_most(matches[k].confidence_score,
                                       matches[j].confidence_score)
             rest == [j \in 1..(Len(matches) - 1) |->
                          IF j < first THEN matches[j] ELSE matches[j + 1]]
         IN  <<matches[first]>> \o sorted_by_confidence(rest)

\* the supplier rows kept whatever their confidence
find_supplier_matches_unfiltered(item, supplier_bom) ==
    IF get(item.qa_material_name, <<>>) = None
    THEN [ret |-> <<>>, err |-> "AttributeError"]
    ELSE LET material_name == lower(get(item.qa_material_name, <<>>))
             part_number == get(item.part_number, <<>>)
             kept == [k \in 1..Len(supplier_bom) |->
                         supplier_match(supplier_bom[k],
                             confidence_of(material_name, part_number,
                                 lower(get(supplier_bom[k].description, <<>>)),
                                 get(supplier_bom[k].part_number, <<>>)))]
         IN  IF \E k \in 1..Len(supplier_bom) :
                    get(supplier_bom[k].description, <<>>) \in {None, NaN}
             THEN [ret |-> <<>>, err |-> "AttributeError"]
             ELSE [ret |-> sorted_by_confidence(kept), err |-> "none"]

\* ItemMatcher._find_supplier_matches: the list returned, or the exception
\* that leaves the function
_find_supplier_matches(item, supplier_bom) ==
    IF get(item.qa_material_name, <<>>) = None
    THEN [ret |-> <<>>, err |-> "AttributeError"]
    ELSE LET material_name == lower(get(item.qa_material_name, <<>>))
             part_number == get(item.part_number, <<>>)
             found == supplier_rows_from(material_name, part_number, supplier_bom,
                                         1, <<>>)
         IN  IF found.err # "none" THEN found
             ELSE [ret |-> sorted_by_confidence(found.ret), err |-> "none"]

\* max(kb_matches, key=confidence_score): the first of the largest
first_best_kb(kb_matches) ==
    CHOOSE k \in 1..Len(kb_matches) :
        /\ \A j \in 1..Len(kb_matches) :
              kb_matches[j].confidence_score <= kb_matches[k].confidence_score
        /\ \A j \in 1..(k - 1) :
              kb_matches[j].confidence_score < kb_matches[k].confidence_score

\* max(supplier_matches, key=confidence_score)
first_best_supplier(supplier_matches) ==
    CHOOSE k \in 1..Len(supplier_matches) :
        /\ \A j \in 1..Len(supplier_matches) :
              at_most(supplier_matches[j].confidence_score,
                      supplier_matches[k].confidence_score)
        /\ \A j \in 1..(k - 1) :
              ~at_most(supplier_matches[k].confidence_score,
                       supplier_matches[j].confidence_score)

\* the dictionary built from a knowledge-base match, lines 103-110 and 124-131
from_knowledge_base(kb_match, confidence, match_type) ==
    [id |-> kb_match.id,
     supplier_description |-> kb_match.material_name,
     supplier_part_number |-> kb_match.part_number,
     confidence_score |-> hundredths(confidence),
     match_type |-> match_type,
     match_source |-> "knowledge_base"]

\* {**best_supplier, 'match_source': 'supplier_bom'}
from_supplier(best_supplier) ==
    [supplier_description |-> best_supplier.supplier_description,
     supplier_part_number |-> best_supplier.supplier_part_number,
     confidence_score |-> best_supplier.confidence_score,
     match_type |-> best_supplier.match_type,
     match_source |-> "supplier_bom"]

\* the two fallbacks of _select_best_match, lines 112-133
select_after_exact(kb_matches, supplier_matches) ==
    LET strong == supplier_matches # <<>> /\
                  above(supplier_matches[first_best_supplier(supplier_matches)]
                            .confidence_score, SupplierPreferred)
    IN  IF strong
        THEN from_supplier(supplier_matches[first_best_supplier(supplier_matches)])
        ELSE IF kb_matches # <<>>
        THEN from_knowledge_base(
                 kb_matches[first_best_kb(kb_matches)],
                 60, "fuzzy")
        ELSE <<>>

\* _select_best_match with the supplier BOM asked before the knowledge base
select_supplier_first(item, kb_matches, supplier_matches) ==
    LET exact == {k \in 1..Len(kb_matches) : kb_matches[k].match_type = "exact"}
        strong == supplier_matches # <<>> /\
                  above(supplier_matches[first_best_supplier(supplier_matches)]
                            .confidence_score, SupplierPreferred)
    IN  IF strong
        THEN from_supplier(supplier_matches[first_best_supplier(supplier_matches)])
        ELSE IF exact # {}
        THEN from_knowledge_base(
                 kb_matches[CHOOSE k \in exact : \A j \in exact : k <= j], 90, "exact")
        ELSE select_after_exact(kb_matches, supplier_matches)

\* _select_best_match without the fallback of lines 121-131: a knowledge-base
\* match that is not exact is never the best match
select_exact_or_supplier(item, kb_matches, supplier_matches) ==
    LET exact == {k \in 1..Len(kb_matches) : kb_matches[k].match_type = "exact"}
    IN  IF exact # {}
        THEN from_knowledge_base(
                 kb_matches[CHOOSE k \in exact : \A j \in exact : k <= j], 90, "exact")
        ELSE select_after_exact(<<>>, supplier_matches)

\* ItemMatcher._select_best_match
_select_best_match(item, kb_matches, supplier_matches) ==
    LET exact == {k \in 1..Len(kb_matches) : kb_matches[k].match_type = "exact"}
    IN  IF exact # {}
        THEN from_knowledge_base(
                 kb_matches[CHOOSE k \in exact : \A j \in exact : k <= j], 90, "exact")
        ELSE select_after_exact(kb_matches, supplier_matches)

\* _determine_match_source that names the list the best match came from
source_of_winner(kb_matches, supplier_matches) ==
    LET best_match == _select_best_match(<<>>, kb_matches, supplier_matches)
    IN  IF empty(best_match)
        THEN IF supplier_matches # <<>> THEN "supplier_bom" ELSE "no_match"
        ELSE best_match.match_source

\* ItemMatcher._determine_match_source
_determine_match_source(kb_matches, supplier_matches) ==
    IF kb_matches # <<>> /\ supplier_matches # <<>> THEN "hybrid"
    ELSE IF kb_matches # <<>> THEN "knowledge_base"
    ELSE IF supplier_matches # <<>> THEN "supplier_bom"
    ELSE "no_match"

\* ItemMatcher._generate_match_reasoning: the sentence, and the confidence
\* it quotes
_generate_match_reasoning(kb_matches, supplier_matches, best_match) ==
    IF empty(best_match)
    THEN [text |-> "No suitable match found in knowledge base or supplier BOM"]
    ELSE IF best_match.match_source = "knowledge_base"
    THEN IF best_match.match_type = "exact"
         THEN [text |-> "Exact match found in knowledge base from previous workflow",
               confidence |-> best_match.confidence_score]
         ELSE [text |-> "Similar item found in knowledge base",
               confidence |-> best_match.confidence_score]
    ELSE [text |-> "Match found in current supplier BOM",
          confidence |-> best_match.confidence_score]

\* the body of the loop of match_items_with_knowledge_base from line 37 on,
\* for one material and the knowledge-base matches found for it: the match
\* result with the values it was built from, or the exception that leaves
\* the loop
match_result(item, kb_matches, supplier_bom) ==
    LET found == _find_supplier_matches(item, supplier_bom)
        supplier_matches == found.ret
        best_match == _select_best_match(item, kb_matches, supplier_matches)
        reasoning == _generate_match_reasoning(kb_matches, supplier_matches, best_match)
    IN  IF found.err # "none" THEN [err |-> found.err]
        ELSE [err |-> "none",
              item |-> item,
              kb_matches |-> kb_matches,
              supplier_list |-> supplier_matches,
              best_match |-> best_match,
              knowledge_base_matches |-> Len(kb_matches),
              supplier_matches |-> Len(supplier_matches),
              has_previous_match |-> Len(kb_matches) > 0,
              match_source |-> _determine_match_source(kb_matches, supplier_matches),
              confidence_score |-> IF empty(best_match) THEN hundredths(0)
                                   ELSE best_match.confidence_score,
              supplier_description |-> IF empty(best_match) THEN <<>>
                                       ELSE best_match.supplier_description,
              supplier_part_number |-> IF empty(best_match) THEN <<>>
                                       ELSE best_match.supplier_part_number,
              reasoning |-> reasoning]

\* the materials matched: names of one, two and three words, the empty name,
\* a null and an absent key; part numbers that differ in case only
MatchNames == {<<"A">>, <<"A", " ", "7">>, <<"a", " ", "7", " ", "i">>, <<>>, None, Missing}
MatchPartNumbers == {<<"P">>, <<"p">>, None, Missing}
MatchItems == [qa_material_name : MatchNames, part_number : MatchPartNumbers]

\* the rows of the supplier BOM
Descriptions == {<<"a">>, <<"7", " ", "A">>, <<"a", " ", "-">>, <<>>, NaN}
SupplierPartNumbers == {<<"P">>, <<>>}
SupplierItems == [description : Descriptions, part_number : SupplierPartNumbers]
SupplierBoms == SeqsUpTo(SupplierItems, MaxSupplier)

\* knowledge-base matches as find_similar_items builds them, and the same
\* with another match_type and confidence_score, which _select_best_match
\* provides for
KbExact(id) == as_match(insert_row(PriorMaterial, "w0", id, 0))
KbFuzzy(id, confidence) ==
    [KbExact(id) EXCEPT !.match_type = "fuzzy", !.confidence_score = confidence]
KbLists ==
    {<<>>, <<KbExact(1)>>, <<KbFuzzy(1, 50), KbFuzzy(2, 80)>>,
     <<KbFuzzy(1, 80), KbExact(2), KbExact(3)>>, <<KbFuzzy(1, 80), KbFuzzy(2, 80)>>}

(***************************************************************************)
(* The matching of one material as a function of the material, of the       *)
(* knowledge-base matches found for it and of the supplier BOM.             *)
(***************************************************************************)
InitMatch ==
    /\ FreshStore
    /\ call \in [op : {"input"}, item : MatchItems, kb_matches : KbLists,
                  supplier_bom : SupplierBoms]
    /\ ret = None

Match ==
    /\ call.op = "input"
    /\ call' = [call EXCEPT !.op = "match"]
    /\ ret' = match_result(call.item, call.kb_matches, call.supplier_bom)
    /\ UNCHANGED <<items, seq, item_matches, now, issued, runs, workflows, loop>>

NextMatch == Match

SpecMatch == InitMatch /\ [][NextMatch]_vars


(***************************************************************************)
(* The calls of match_items_with_knowledge_base.  A call is a sequence of   *)
(* steps, one for each call it makes of the store: the insert of the batch, *)
(* then one lookup for each material together with the matching of that     *)
(* material, which reads no shared state.  SQLite serializes the            *)
(* transactions of the connections of one database file, so the steps of    *)
(* two calls interleave and no step is interrupted.                         *)
(***************************************************************************)
NamedA == [qa_material_name |-> <<"A">>, part_number |-> <<"P">>]
SameName == [qa_material_name |-> <<"a", "-">>, part_number |-> Missing]
NullName == [qa_material_name |-> None, part_number |-> Missing]

\* the batches of extracted materials of a call made alone
RunBatches ==
    {<<NamedA>>, <<NamedA, SameName>>, <<NullName, NamedA>>, <<NamedA, NullName>>}

\* the batches of each of two calls made at the same time
ConcurrentBatches(workflow_id) ==
    IF workflow_id = "w1" THEN {<<NamedA>>, <<NamedA, NullName>>} ELSE {<<SameName>>}

\* the supplier BOMs: one row, and one row with a blank description
RunBoms ==
    {<<[description |-> <<"a">>, part_number |-> <<"P">>]>>,
     <<[description |-> NaN, part_number |-> <<>>]>>}

\* a connection that add_items left open inside a transaction holds the
\* write lock of the database file
locked == \E w \in Workflows : runs[w].connection = "in transaction"

\* lines 17-24: the call of add_items.  Every INSERT of the batch runs in the
\* second the call is made in.  While the file is locked the INSERT waits
\* for the busy timeout and raises OperationalError, database is locked.
\* A row that violates NOT NULL raises after BEGIN: the except clause of
\* add_items returns without closing the connection.
StartRun(workflow_id, batches) ==
    /\ runs[workflow_id].pc = "idle"
    /\ \E extracted_items \in batches, supplier_bom \in RunBoms,
          fault \in BOOLEAN :
          LET timestamps == [k \in 1..Len(extracted_items) |-> now]
              done == add_items([rows |-> items, sequence |-> seq], extracted_items,
                                workflow_id, timestamps, fault \/ locked)
          IN  /\ items' = done.db.rows
              /\ seq' = done.db.sequence
              /\ issued' = issued \o [k \in 1..Len(done.ret) |->
                                          [id |-> done.ret[k], workflow_id |-> workflow_id]]
              /\ runs' = [runs EXCEPT ![workflow_id] =
                    [NotCalled EXCEPT
                        !.pc = IF extracted_items = <<>> THEN "returned" ELSE "matching",
                        !.extracted_items = extracted_items,
                        !.supplier_bom = supplier_bom,
                        !.new_item_ids = done.ret,
                        !.add_err = IF locked /\ ~fault THEN "database is locked"
                                    ELSE done.err,
                        !.connection = IF done.err = "IntegrityError"
                                       THEN "in transaction" ELSE "closed"]]
    /\ UNCHANGED <<item_matches, now, call, ret, workflows, loop>>

\* lines 26-61: one turn of the loop, the lookup of the material at position
\* i and its matching; after the last turn the list is returned.  An
\* exception of the matching leaves the function and the list is lost.
MatchNext(workflow_id) ==
    LET run == runs[workflow_id]
    IN  /\ run.pc = "matching"
        /\ \E fault \in BOOLEAN :
             LET item == run.extracted_items[run.i]
                 material_name == get(item.qa_material_name, <<>>)
             IN  \E found \in find_similar_items(items, material_name, fault) :
                    LET result == match_result(item, found.ret, run.supplier_bom)
                    IN  runs' = [runs EXCEPT ![workflow_id] =
                            IF result.err # "none"
                            THEN [run EXCEPT !.pc = "raised",
                                             !.exception = result.err,
                                             !.enhanced_matches = <<>>,
                                             !.find_errs = <<>>]
                            ELSE [run EXCEPT
                                    !.pc = IF run.i = Len(run.extracted_items)
                                           THEN "returned" ELSE "matching",
                                    !.i = @ + 1,
                                    !.enhanced_matches = Append(@, result),
                                    !.find_errs = Append(@, found.err)]]
        /\ UNCHANGED <<items, seq, item_matches, now, call, ret, issued, workflows, loop>>

\* the garbage collector reclaims the connection a failed add_items left
\* open: sqlite3 closes it and the transaction is rolled back
CollectGarbage(workflow_id) ==
    /\ runs[workflow_id].connection = "in transaction"
    /\ runs' = [runs EXCEPT ![workflow_id].connection = "closed"]
    /\ UNCHANGED <<items, seq, item_matches, now, call, ret, issued, workflows, loop>>

\* one call, of workflow w1, on the store earlier runs have left
NextRun == StartRun("w1", RunBatches) \/ MatchNext("w1") \/ CollectGarbage("w1")

SpecRun == Init /\ [][NextRun]_vars

\* two calls, of workflows w1 and w2, on the same store
NextRuns ==
    \E workflow_id \in Workflows :
        \/ StartRun(workflow_id, ConcurrentBatches(workflow_id))
        \/ MatchNext(workflow_id)
        \/ CollectGarbage(workflow_id)

SpecRuns == Init /\ [][NextRuns]_vars

(***************************************************************************)
(* The extraction step: ExtractionAgent.process_translated_content.  The    *)
(* text is split into chunks; for each chunk the remote service is asked    *)
(* for the materials it names, and when the service is not available or     *)
(* its answer cannot be used the demo materials stand in for the chunk.     *)
(* What the service does for a chunk is an input: Unavailable, or the list  *)
(* of dictionaries its answer parses to.                                    *)
(***************************************************************************)
Unavailable == <<[is_available |-> FALSE]>>

\* the material _create_enhanced_material builds from a dictionary of the
\* answer: the fields the deduplication and the classifier read, with the
\* defaults of lines 168-183, and the classification of the dictionary
_create_enhanced_material(material_data) ==
    LET classification_result == _classify_material(material_data)
    IN  [name |-> material_data.name,
         specifications |-> get(material_data.specifications, EmptyDict),
         consumable_jigs_tools |-> get(material_data.consumable_jigs_tools, False),
         part_number |-> get(material_data.part_number, None),
         pn_mismatch |-> get(material_data.pn_mismatch, False),
         quantity |-> get(material_data.quantity, None),
         obsolete_pn |-> get(material_data.obsolete_pn, False),
         vendor_name |-> get(material_data.vendor_name, None),
         kit_available |-> get(material_data.kit_available, False),
         confidence_level |-> classification_result.confidence_level,
         action_path_rag |-> classification_result.action_path,
         classification_label |-> classification_result.label,
         classification_reasoning |-> classification_result.reasoning]

\* the list _create_demo_materials_chunk_enhanced returns: one bolt, a
\* consumable with a part number, a quantity of 4.0 and three specifications,
\* its classification written out in the constructor call
_create_demo_materials_chunk_enhanced ==
    <<[name |-> <<"A", "7", " ", "A">>,
       specifications |-> SomeDict,
       consumable_jigs_tools |-> True,
       part_number |-> <<"P", "7">>,
       pn_mismatch |-> Missing,
       quantity |-> Four,
       obsolete_pn |-> Missing,
       vendor_name |-> Missing,
       kit_available |-> Missing,
       confidence_level |-> "HIGH",
       action_path_rag |-> "GREEN",
       classification_label |-> "CONSUMABLE_WITH_PN_QTY",
       classification_reasoning |-> "Demo: Consumable with PN and quantity - Auto-Register"]>>

\* _extract_from_chunk_enhanced: the materials of one chunk
_extract_from_chunk_enhanced(answer) ==
    IF answer = Unavailable THEN _create_demo_materials_chunk_enhanced
    ELSE [k \in 1..Len(answer) |-> _create_enhanced_material(answer[k])]

\* the loop of _deduplicate_materials from position k on
RECURSIVE deduplicate_from(_, _, _, _)
deduplicate_from(materials, k, unique_materials, seen_names) ==
    IF k > Len(materials) THEN unique_materials
    ELSE LET name_key == strip(lower(materials[k].name))
         IN  IF name_key \notin seen_names
             THEN deduplicate_from(materials, k + 1,
                                   Append(unique_materials, materials[k]),
                                   seen_names \cup {name_key})
             ELSE deduplicate_from(materials, k + 1, unique_materials, seen_names)

\* ExtractionAgent._deduplicate_materials
_deduplicate_materials(materials) == deduplicate_from(materials, 1, <<>>, {})

\* all_materials of process_translated_content after the loop over the chunks
RECURSIVE all_materials(_)
all_materials(answers) ==
    IF answers = <<>> THEN <<>>
    ELSE _extract_from_chunk_enhanced(Head(answers)) \o all_materials(Tail(answers))

\* process_translated_content: the value of the key "materials"
process_translated_content(answers) == _deduplicate_materials(all_materials(answers))

\* the names the service gives: two that differ in case and in a leading
\* space, one that differs from them in punctuation, and another name
ExtractNames == {<<"A">>, <<" ", "a">>, <<"a", "-">>, <<"7">>}

\* the attributes the service gives: those of a consumable with part number,
\* quantity and specifications, and none
ExtractAttributes ==
    {[consumable_jigs_tools |-> True, part_number |-> <<"P", "7">>,
      quantity |-> Four, specifications |-> SomeDict, vendor_name |-> None,
      kit_available |-> False, pn_mismatch |-> False, obsolete_pn |-> False],
     [consumable_jigs_tools |-> Missing, part_number |-> Missing,
      quantity |-> Missing, specifications |-> Missing, vendor_name |-> Missing,
      kit_available |-> Missing, pn_mismatch |-> Missing, obsolete_pn |-> Missing]}

ExtractData ==
    {[name |-> name,
      consumable_jigs_tools |-> a.consumable_jigs_tools,
      part_number |-> a.part_number,
      quantity |-> a.quantity,
      specifications |-> a.specifications,
      vendor_name |-> a.vendor_name,
      kit_available |-> a.kit_available,
      pn_mismatch |-> a.pn_mismatch,
      obsolete_pn |-> a.obsolete_pn] : name \in ExtractNames, a \in ExtractAttributes}

\* what the service does for one chunk: it is not available, or it names no
\* material or one
Answers == {Unavailable, <<>>} \cup {<<material_data>> : material_data \in ExtractData}

\* _split_into_extraction_chunks returns at least one chunk
InitExtract ==
    /\ FreshStore
    /\ call \in [op : {"input"}, answers : SeqsUpTo(Answers, MaxChunks) \ {<<>>}]
    /\ ret = None

Extract ==
    /\ call.op = "input"
    /\ call' = [call EXCEPT !.op = "process_translated_content"]
    /\ ret' = process_translated_content(call.answers)
    /\ UNCHANGED <<items, seq, item_matches, now, issued, runs, workflows, loop>>

NextExtract == Extract

SpecExtract == InitExtract /\ [][NextExtract]_vars


(***************************************************************************)
(* The workflow registry of the router (routers/autonomous.py) and the      *)
(* background task that processes the documents of a workflow.  All tasks   *)
(* run on one event loop: a task runs without interruption until it         *)
(* suspends or returns, and the ready tasks run in the order in which they  *)
(* were made ready.  The progress callback handed to the orchestrator is a  *)
(* lambda that calls asyncio.create_task(update_workflow_progress(...)):    *)
(* the orchestrator calls it as a plain function, and the update runs as a  *)
(* task of its own, after the task that created it has suspended or         *)
(* returned.                                                               *)
(***************************************************************************)

\* the entries of the queue of ready tasks
Background(workflow_id) ==
    [task |-> "process_documents_background", workflow_id |-> workflow_id,
     stage |-> "", progress |-> 0]
Callback(workflow_id, stage, progress) ==
    [task |-> "update_workflow_progress", workflow_id |-> workflow_id,
     stage |-> stage, progress |-> progress]

\* the awaits of process_documents_enhanced at which the event loop can get
\* control, and the stage of the matcher, which is called without await
Agents == {"translation", "extraction", "supplier_bom"}
Stages == Agents \cup {"comparison"}

\* what a stage does when it is reached: whether its await suspends the
\* task (_save_stage_result never does: it awaits nothing), and whether the
\* stage ends in an exception or in a result the orchestrator raises on
Outcomes == [Stages -> [suspends : BOOLEAN, raises : BOOLEAN]]

\* progress_callback(stage, progress, message): the task is created and made
\* ready, nothing else happens yet
progress_callback(st, workflow_id, stage, progress) ==
    [st EXCEPT !.ready = Append(@, Callback(workflow_id, stage, progress))]

\* update_workflow_progress: status is left as it is
update_workflow_progress(registry, workflow_id, stage, progress) ==
    IF registry[workflow_id] # NoEntry
    THEN [registry EXCEPT ![workflow_id] =
             [@ EXCEPT !.current_stage = stage, !.progress = progress]]
    ELSE registry

\* workflows[workflow_id].update({...}) of process_documents_background
write_status(st, workflow_id, status, stage, progress) ==
    [st EXCEPT !.workflows[workflow_id] =
        [status |-> status, current_stage |-> stage, progress |-> progress]]

returned(st, workflow_id) == [st EXCEPT !.at[workflow_id] = "returned"]

\* the except clauses: the orchestrator reports the error and raises again
\* (agent_orchestrator.py:168-175), the background task writes the status
\* error (autonomous.py:162-170) and returns
on_exception(st, workflow_id) ==
    returned(write_status(progress_callback(st, workflow_id, "error", 0),
                          workflow_id, "error", "error", 0),
             workflow_id)

\* stage 4 and the end of both functions: the matcher is called, the two
\* last callbacks are made, the result is stored and the status completed
\* is written, all without a suspension
comparison(st, workflow_id, outcomes) ==
    LET called == progress_callback(
                      progress_callback(st, workflow_id, "supplier_bom", 80),
                      workflow_id, "comparison", 85)
        reported == progress_callback(
                        progress_callback(called, workflow_id, "comparison", 95),
                        workflow_id, "completed", 100)
    IN  IF outcomes["comparison"].raises THEN on_exception(called, workflow_id)
        ELSE returned(write_status(reported, workflow_id,
                                   "completed", "completed", 100),
                      workflow_id)

\* the callbacks the orchestrator makes before it awaits the agent of a stage
before_agent(st, workflow_id, stage) ==
    CASE stage = "translation" ->
             progress_callback(st, workflow_id, "translation", 5)
      [] stage = "extraction" ->
             progress_callback(
                 progress_callback(st, workflow_id, "translation", 30),
                 workflow_id, "extraction", 35)
      [] stage = "supplier_bom" ->
             progress_callback(
                 progress_callback(st, workflow_id, "extraction", 60),
                 workflow_id, "supplier_bom", 65)

next_stage(stage) ==
    CASE stage = "translation" -> "extraction"
      [] stage = "extraction" -> "supplier_bom"
      [] stage = "supplier_bom" -> "comparison"

\* process_documents_enhanced from the stage named on, as far as the task
\* runs without suspension.  resumed says that the await of that stage has
\* suspended the task before and is now over.  st is the registry, the queue
\* of ready tasks and the places of the background tasks.
RECURSIVE process_documents_enhanced(_, _, _, _, _)
process_documents_enhanced(st, workflow_id, stage, resumed, outcomes) ==
    IF stage = "comparison" THEN comparison(st, workflow_id, outcomes)
    ELSE IF ~resumed
    THEN LET awaiting == before_agent(st, workflow_id, stage)
         IN  IF outcomes[stage].suspends
             THEN [awaiting EXCEPT !.at[workflow_id] = stage]
             ELSE process_documents_enhanced(awaiting, workflow_id, stage, TRUE, outcomes)
    ELSE IF outcomes[stage].raises THEN on_exception(st, workflow_id)
    ELSE process_documents_enhanced(st, workflow_id, next_stage(stage), FALSE, outcomes)

\* process_documents_background from its first line; without an orchestrator
\* it sleeps, and the mock results are stored when it wakes
process_documents_background(st, workflow_id, outcomes) ==
    LET processing == write_status(st, workflow_id, "processing", "translation", 10)
    IN  IF st.orchestrator
        THEN process_documents_enhanced(processing, workflow_id, "translation",
                                        FALSE, outcomes)
        ELSE [processing EXCEPT !.at[workflow_id] = "sleep"]

\* process_documents_background from the place where it was suspended
resume(st, workflow_id, outcomes) ==
    IF st.at[workflow_id] = "sleep"
    THEN returned(write_status(st, workflow_id, "completed", "completed", 100),
                  workflow_id)
    ELSE process_documents_enhanced(st, workflow_id, st.at[workflow_id], TRUE, outcomes)

\* upload_documents: the entry of the workflow is created and the background
\* task is added; it starts after the response is sent
Upload(workflow_id) ==
    /\ loop.at[workflow_id] = "not added"
    /\ workflows' = [workflows EXCEPT ![workflow_id] =
           [status |-> "initialized", current_stage |-> "upload", progress |-> 0]]
    /\ loop' = [loop EXCEPT !.ready = Append(@, Background(workflow_id)),
                            !.at[workflow_id] = "added"]
    /\ UNCHANGED <<items, seq, item_matches, now, call, ret, issued, runs>>

\* the agent a background task is waiting for is done, or its sleep is over:
\* the task is ready
Wake(workflow_id) ==
    /\ loop.at[workflow_id] \in Agents \cup {"sleep"}
    /\ \A k \in 1..Len(loop.ready) : loop.ready[k] # Background(workflow_id)
    /\ loop' = [loop EXCEPT !.ready = Append(@, Background(workflow_id))]
    /\ UNCHANGED <<items, seq, item_matches, now, call, ret, issued, runs, workflows>>

\* the event loop runs the first ready task until it suspends or returns
RunNext ==
    /\ loop.ready # <<>>
    /\ LET task == Head(loop.ready)
           st == [workflows |-> workflows, ready |-> Tail(loop.ready), at |-> loop.at,
                  orchestrator |-> loop.orchestrator]
       IN  \/ /\ task.task = "update_workflow_progress"
              /\ workflows' = update_workflow_progress(workflows, task.workflow_id,
                                                       task.stage, task.progress)
              /\ loop' = [loop EXCEPT !.ready = Tail(@)]
           \/ /\ task.task = "process_documents_background"
              /\ \E outcomes \in Outcomes :
                    LET after ==
                            IF loop.at[task.workflow_id] = "added"
                            THEN process_documents_background(st, task.workflow_id,
                                                              outcomes)
                            ELSE resume(st, task.workflow_id, outcomes)
                    IN  /\ workflows' = after.workflows
                        /\ loop' = [loop EXCEPT !.ready = after.ready, !.at = after.at]
    /\ UNCHANGED <<items, seq, item_matches, now, call, ret, issued, runs>>

\* the router after import: with its services, or without them when their
\* construction failed
InitWorkflows ==
    /\ items = <<>>
    /\ seq = 0
    /\ item_matches = <<>>
    /\ now = 0
    /\ issued = <<>>
    /\ runs = NoRuns
    /\ call = NoCall
    /\ ret = None
    /\ workflows = NoWorkflows
    /\ loop \in {[IdleLoop EXCEPT !.orchestrator = present] : present \in BOOLEAN}

NextWorkflows == (\E workflow_id \in Workflows : Upload(workflow_id) \/ Wake(workflow_id)) \/ RunNext

SpecWorkflows == InitWorkflows /\ [][NextWorkflows]_vars


(***************************************************************************)
(* Properties of the normalizer and of the classifier.                      *)
(***************************************************************************)

\* what "present" means for the fields the decision table reads
Present(v) == v \notin {Missing, None, <<>>, Zero, EmptyDict}
Set(v) == v = True

\* the decision table of the classifier, rule k of 1..10
RuleHolds(k, m) ==
    LET consumable == Set(m.consumable_jigs_tools)
        pn == Present(m.part_number)
        qty == Present(m.quantity)
        specs == Present(m.specifications)
        vendor == Present(m.vendor_name)
        kit == Set(m.kit_available)
    IN  CASE k = 1 -> consumable /\ pn /\ qty /\ specs
          [] k = 2 -> consumable /\ pn /\ qty
          [] k = 3 -> consumable /\ pn /\ ~qty
          [] k = 4 -> consumable /\ ~pn
          [] k = 5 -> Set(m.obsolete_pn)
          [] k = 6 -> Set(m.pn_mismatch)
          [] k = 7 -> vendor /\ kit /\ ~pn
          [] k = 8 -> vendor /\ ~consumable
          [] k = 9 -> kit
          [] k = 10 -> TRUE

RuleOutcome ==
    <<  <<"CONSUMABLE_WITH_PN_SPEC_QTY", "HIGH", "GREEN">>,
        <<"CONSUMABLE_WITH_PN_QTY", "HIGH", "GREEN">>,
        <<"CONSUMABLE_NO_QTY", "MEDIUM", "AMBER">>,
        <<"CONSUMABLE_NO_PN", "LOW", "RED">>,
        <<"CONSUMABLE_OBSOLETE_PN", "LOW", "RED">>,
        <<"CONSUMABLE_PN_MISMATCH", "LOW", "RED">>,
        <<"VENDOR_KIT_NO_PN", "LOW", "RED">>,
        <<"VENDOR_NAME_ONLY", "MEDIUM", "AMBER">>,
        <<"PRE_ASSEMBLED_KIT", "MEDIUM", "AMBER">>,
        <<"NO_CONSUMABLE_MENTIONED", "LOW", "RED">>  >>

FirstRule(m) == CHOOSE k \in 1..10 : RuleHolds(k, m) /\ \A j \in 1..(k - 1) : ~RuleHolds(j, m)

Triple(outcome) == <<outcome.label, outcome.confidence_level, outcome.action_path>>

Classified == call.op \in {"classify", "reclassify"}

C2_FirstMatchingRule ==
    Classified =>
        /\ Triple(ret) = RuleOutcome[FirstRule(call.arg)]
        /\ (RuleHolds(1, call.arg) /\ RuleHolds(5, call.arg)) =>
              Triple(ret) = <<"CONSUMABLE_WITH_PN_SPEC_QTY", "HIGH", "GREEN">>

\* a consumable with part number, quantity, specifications and obsolete_pn
C2_Witness ==
    /\ call.op = "classify"
    /\ RuleHolds(1, call.arg)
    /\ RuleHolds(5, call.arg)
    /\ ret.label = "CONSUMABLE_WITH_PN_SPEC_QTY"

\* every whitespace run of s replaced by one space
RECURSIVE CollapseRuns(_)
CollapseRuns(s) ==
    IF s = <<>> THEN <<>>
    ELSE IF isspace(Head(s)) THEN <<" ">> \o CollapseRuns(lstrip(s))
    ELSE <<Head(s)>> \o CollapseRuns(Tail(s))

\* the input lower-cased, the characters that are neither alphanumeric nor
\* whitespace removed, then trimmed, then its whitespace runs collapsed
Canonical(x) ==
    IF x = None THEN <<>>
    ELSE CollapseRuns(strip(SelectSeq(lower(x), LAMBDA c : isalnum(c) \/ isspace(c))))

\* C3: normalizing the normalizer's output gives that output again.
C3_NormalizeIdempotent == call.op = "renormalize" => ret = call.arg

\* a name that changes under the normalizer has been normalized twice
C3_Witness ==
    /\ call.op = "renormalize"
    /\ call.input = <<"A", "\t", "7">>
    /\ call.arg = <<"a", " ", "7">>
    /\ ret = <<"a", " ", "7">>

\* C4: the normalizer's result is the input lower-cased, without the characters
\* that are neither alphanumeric nor whitespace, without leading or trailing
\* whitespace and with one space for every whitespace run; None and the empty
\* string give the empty string.
C4_NormalizeResult ==
    call.op = "normalize" =>
        /\ ret = Canonical(call.arg)
        /\ call.arg \in {None, <<>>} => ret = <<>>

\* punctuation before a space before an upper-case letter: stripping first
\* leaves a leading space for the final split and join to remove
C4_Witness ==
    /\ call.op = "normalize"
    /\ call.arg = <<"-", " ", "A">>
    /\ ret = <<"a">>


(***************************************************************************)
(* Properties of the knowledge store.  They are stated of the calls that    *)
(* complete without an exception (call.err = "none"); what a call does when *)
(* the store fails is the subject of the error-handling properties.         *)
(***************************************************************************)
Found == call.op = "find_similar_items" /\ call.err = "none"

\* the stored rows a lookup of material_name is about
Sharing(material_name) ==
    {k \in 1..Len(items) :
        items[k].normalized_name = normalize_material_name(material_name)}

Returned(k) ==
    \E j \in 1..Len(ret) :
        /\ ret[j].id = items[k].id
        /\ ret[j].material_name = items[k].material_name
        /\ ret[j].workflow_id = items[k].workflow_id

NewestFirst == \A i, j \in 1..Len(ret) : i < j => ret[i].created_at >= ret[j].created_at

ExactNewest(material_name) ==
    LET sharing == Sharing(material_name)
        listed == {k \in sharing : \E j \in 1..Len(ret) : ret[j].id = items[k].id}
    IN  /\ Len(ret) = IF Cardinality(sharing) < Limit THEN Cardinality(sharing) ELSE Limit
        /\ \A j \in 1..Len(ret) :
              /\ ret[j].normalized_name = normalize_material_name(material_name)
              /\ \E k \in sharing : ret[j].id = items[k].id /\ Returned(k)
        /\ \A i, j \in 1..Len(ret) : i # j => ret[i].id # ret[j].id
        /\ NewestFirst
        /\ \A k \in sharing \ listed, l \in listed :
              items[k].created_at <= items[l].created_at

C7_AddItemsAppends ==
    [][ ( /\ call'.op = "add_items"
          /\ <<call, ret, items>>' # <<call, ret, items>>
          /\ call'.err = "none"
          /\ call'.items # <<>> )
        => LET n == Len(call'.items)
               old == Len(items)
           IN  /\ Len(ret') = n
               /\ Len(items') = old + n
               /\ SubSeq(items', 1, old) = items
               /\ \A i \in 1..n :
                     /\ items'[old + i].id = ret'[i]
                     /\ items'[old + i].material_name =
                            get(call'.items[i].qa_material_name, <<>>)
                     /\ \A k \in 1..old : items[k].id # ret'[i] ]_vars

\* a batch of two different materials was stored on top of rows with the
\* normalized name of one of them
C7_Witness ==
    /\ call.op = "add_items"
    /\ call.err = "none"
    /\ Len(call.items) = 2
    /\ call.items[1] # call.items[2]
    /\ Len(ret) = 2
    /\ Len(items) > 3
    /\ items[Len(items)].id = ret[2]
    /\ \E k \in 1..(Len(items) - 2), i \in 1..2 :
          items[k].normalized_name = items[Len(items) - 2 + i].normalized_name

\* C8: every stored row's normalized_name is the normalizer's output for the
\* row's material_name, and what a lookup returns has the normalizer's output
\* for the query as its normalized_name.
C8_NormalizedBothSides ==
    /\ \A k \in 1..Len(items) :
          items[k].normalized_name = normalize_material_name(items[k].material_name)
    /\ Found => \A j \in 1..Len(ret) :
          ret[j].normalized_name = normalize_material_name(call.material_name)

\* a lookup by one name returned a record stored under another name with the
\* same normalized form
C8_Witness ==
    /\ Found
    /\ call.material_name = <<"a", "-">>
    /\ \E j \in 1..Len(ret) :
          /\ ret[j].material_name = <<"A">>
          /\ ret[j].normalized_name = <<"a">>

\* C9: the ids of the stored rows are distinct, and every id a committed
\* insert was given is greater than every id given before it, the ids of rows
\* that clear_all_data has removed included.
C9_IdsIncrease ==
    /\ \A i, j \in 1..Len(issued) : i < j => issued[i].id < issued[j].id
    /\ \A i, j \in 1..Len(items) : i < j => items[i].id < items[j].id
    /\ \A k \in 1..Len(items) : \E i \in 1..Len(issued) : issued[i].id = items[k].id
    /\ \A i \in 1..Len(issued) : issued[i].id <= seq

\* rows were stored, removed by clear_all_data, and a later insert got an id
\* above all of theirs
C9_Witness ==
    /\ call.op = "add_items"
    /\ call.err = "none"
    /\ Len(items) = 1
    /\ Len(issued) > 2
    /\ items[1].id = issued[Len(issued)].id
    /\ \A i \in 1..(Len(issued) - 1) : issued[i].id < items[1].id

Reported == call.op = "get_processing_stats"

\* C10: match_rate is unique_matched_items / total_items * 100 when
\* total_items > 0 and 0 when total_items is 0, and computing it never
\* raises ZeroDivisionError.
C10_MatchRate ==
    Reported =>
        /\ call.err # "ZeroDivisionError"
        /\ call.err = "none" => ret.total_items = Len(items)
        /\ ret.total_items > 0 =>
              ret.match_rate.num * ret.total_items =
                  ret.unique_matched_items * 100 * ret.match_rate.den
        /\ ret.total_items = 0 => ret.match_rate.num = 0

\* two of three items are matched: the rate is 200/3
C10_Witness ==
    /\ Reported
    /\ ret.total_items = 3
    /\ ret.unique_matched_items = 2
    /\ ret.match_rate = [num |-> 200, den |-> 3]

Cleared == call.op = "clear_all_data" /\ call.err = "none"

AllZero ==
    [total_items |-> 0, total_workflows |-> 0, total_matches |-> 0,
     unique_matched_items |-> 0, match_rate |-> [num |-> 0, den |-> 1]]

\* C11: once clear_all_data has completed, whatever the two tables held, the
\* store holds no item and no match row; get_processing_stats called next
\* returns 0 for the four counters and for match_rate, and find_similar_items
\* returns the empty list for every name.
C11_ClearEmpties ==
    /\ [](Cleared =>
            /\ items = <<>>
            /\ item_matches = <<>>
            /\ \A material_name \in QueryNames :
                  \A found \in find_similar_items(items, material_name, FALSE) :
                      found.ret = <<>>)
    /\ [][(Cleared /\ call'.op = "get_processing_stats") => ret' = AllZero]_vars

\* three items had been stored and were removed, and the statistics were
\* read from the emptied store
C11_Witness ==
    /\ Reported
    /\ call.err = "none"
    /\ Len(issued) = MaxRows
    /\ items = <<>>
    /\ item_matches = <<>>
    /\ ret = AllZero

\* C16 as claimed: the value add_items returns when the store cannot be
\* written is not the value a successful call that inserts nothing returns,
\* and the value find_similar_items returns when the store cannot be read is
\* not the value it returns when no record matches.
C16_FailureDistinct ==
    /\ (call.op = "add_items" /\ call.err # "none") =>
          ret # add_items([rows |-> items, sequence |-> seq], <<>>, "w1", <<>>, FALSE).ret
    /\ (call.op = "find_similar_items" /\ call.err # "none") =>
          \A found \in find_similar_items(<<>>, call.material_name, FALSE) :
              ret # found.ret

\* a call of add_items that failed on a row after the first one
PartialFailure ==
    /\ call'.op = "add_items"
    /\ <<call, ret>>' # <<call, ret>>
    /\ call'.err = "IntegrityError"
    /\ ~violates_not_null(insert_row(call'.items[1], "w1", 0, 0))

\* C17: when add_items fails on a row after earlier rows of the batch were
\* written, no row of the batch stays in the store, so that no stored row is
\* left without its id, and the list returned has not one id for each
\* material, as the list of every call that succeeds has: the caller can
\* tell the failure from a success.
C17_PartialFailure ==
    [][PartialFailure =>
            /\ items' = items
            /\ Len(ret') # Len(call'.items)
            /\ \A k \in 1..Len(items') : \E h \in 1..Len(issued') :
                  issued'[h].id = items'[k].id]_vars

\* a batch of a named material and a material whose name is null was
\* handed to a store with rows: the list returned is empty and the rows are
\* those of the earlier runs
C17_Witness ==
    /\ call.op = "add_items"
    /\ call.err = "IntegrityError"
    /\ Len(call.items) = 2
    /\ call.items[1].qa_material_name = <<"A">>
    /\ call.items[2].qa_material_name = None
    /\ ret = <<>>
    /\ Len(items) = MaxPrior
    /\ \A k \in 1..Len(items) : items[k].workflow_id = "w0"

\* C24: stored records are append-only.  Every step of add_items,
\* find_similar_items and get_processing_stats leaves every row of table
\* items as it was, in its place, a row of the same normalized name as a new
\* material included; rows disappear only in a step of clear_all_data, which
\* removes them all.
C24_AppendOnly ==
    [][\/ /\ Len(items') >= Len(items)
          /\ \A k \in 1..Len(items) : items'[k] = items[k]
       \/ /\ call'.op = "clear_all_data"
          /\ call'.err = "none"
          /\ items' = <<>>]_vars

\* a material has been inserted whose normalized name an earlier run stored:
\* the earlier row is there as it was, next to the new one
C24_Witness ==
    /\ call.op = "add_items"
    /\ call.err = "none"
    /\ ret # <<>>
    /\ \E j, k \in 1..Len(items) :
          /\ j < k
          /\ items[j].normalized_name = items[k].normalized_name
          /\ items[j].material_name = PriorMaterial.qa_material_name
          /\ items[j].workflow_id = "w0"
          /\ items[k].material_name = <<"A">>
          /\ items[k].workflow_id = "w1"
          /\ items[k].id = ret[Len(ret)]

Matched == call.op = "match" /\ ret.err = "none"

\* the positions of the largest score in a list of supplier matches
Highest(list) ==
    {k \in 1..Len(list) :
        \A j \in 1..Len(list) : at_most(list[j].confidence_score, list[k].confidence_score)}

\* C12: the best match is (a) a knowledge-base match of type exact, reported
\* with confidence 0.9, when there is one; (b) otherwise a highest-scoring
\* supplier match with its own score when that score is above 0.7;
\* (c) otherwise a highest-scoring knowledge-base match, reported with
\* confidence 0.6, when there is any; (d) otherwise none.
C12_BestMatchPrecedence ==
    Matched =>
        LET kb == ret.kb_matches
            sup == ret.supplier_list
            best == ret.best_match
        IN  IF \E k \in 1..Len(kb) : kb[k].match_type = "exact"
            THEN /\ ~empty(best)
                 /\ best.match_source = "knowledge_base"
                 /\ best.confidence_score = hundredths(90)
                 /\ \E k \in 1..Len(kb) :
                       /\ kb[k].match_type = "exact"
                       /\ best.id = kb[k].id
                       /\ best.supplier_description = kb[k].material_name
            ELSE IF \E k \in Highest(sup) : above(sup[k].confidence_score, SupplierPreferred)
            THEN /\ ~empty(best)
                 /\ best.match_source = "supplier_bom"
                 /\ \E k \in Highest(sup) :
                       /\ best.confidence_score = sup[k].confidence_score
                       /\ best.supplier_description = sup[k].supplier_description
                       /\ best.supplier_part_number = sup[k].supplier_part_number
            ELSE IF kb # <<>>
            THEN /\ ~empty(best)
                 /\ best.match_source = "knowledge_base"
                 /\ best.confidence_score = hundredths(60)
                 /\ \E k \in 1..Len(kb) :
                       /\ \A j \in 1..Len(kb) :
                             kb[j].confidence_score <= kb[k].confidence_score
                       /\ best.id = kb[k].id
            ELSE empty(best)

\* an exact knowledge-base match that is not the first of its list wins over
\* a supplier row with the material's part number, and is reported with 0.9
C12_Witness ==
    /\ Matched
    /\ Len(ret.kb_matches) = 3
    /\ ret.kb_matches[1].match_type = "fuzzy"
    /\ \E k \in 1..Len(ret.supplier_list) :
          ret.supplier_list[k].confidence_score = hundredths(95)
    /\ ret.best_match.id = 2
    /\ ret.best_match.match_source = "knowledge_base"
    /\ ret.confidence_score = hundredths(90)

\* C13: match_source is hybrid when both the list of knowledge-base matches
\* and the list of supplier matches that passed the threshold are non-empty,
\* whichever list the best match came from; knowledge_base or supplier_bom
\* when only that list is non-empty; no_match exactly when both are empty.
\* With no knowledge-base match and an empty supplier BOM it is no_match and
\* there is no best match.
C13_MatchSource ==
    Matched =>
        LET kb == ret.knowledge_base_matches > 0
            sup == ret.supplier_matches > 0
        IN  /\ (kb /\ sup) => ret.match_source = "hybrid"
            /\ (kb /\ ~sup) => ret.match_source = "knowledge_base"
            /\ (~kb /\ sup) => ret.match_source = "supplier_bom"
            /\ ret.match_source = "no_match" <=> (~kb /\ ~sup)
            /\ (call.kb_matches = <<>> /\ call.supplier_bom = <<>>) =>
                  ret.match_source = "no_match" /\ empty(ret.best_match)

\* both lists are non-empty, the best match is the knowledge base's, and the
\* source reported is hybrid
C13_Witness ==
    /\ Matched
    /\ ret.knowledge_base_matches > 0
    /\ ret.supplier_matches > 0
    /\ ret.best_match.match_source = "knowledge_base"
    /\ ret.match_source = "hybrid"

\* C20: every supplier match _find_supplier_matches returns has a score above
\* 0.3, and supplier_matches of the match result is the number of supplier
\* rows whose score is above 0.3.
C20_ThresholdFilter ==
    Matched =>
        LET material_name == lower(get(call.item.qa_material_name, <<>>))
            part_number == get(call.item.part_number, <<>>)
            bom == call.supplier_bom
            passing ==
                {k \in 1..Len(bom) :
                    above(confidence_of(material_name, part_number,
                                        lower(bom[k].description), bom[k].part_number),
                          MinimumThreshold)}
        IN  /\ \A k \in 1..Len(ret.supplier_list) :
                  above(ret.supplier_list[k].confidence_score, MinimumThreshold)
            /\ ret.supplier_matches = Cardinality(passing)
            /\ Len(ret.supplier_list) = ret.supplier_matches

\* of two supplier rows that share words with a three-word name, the one
\* scoring 0.8 / 3 is left out and the one scoring 1.6 / 3 is returned
C20_Witness ==
    /\ Matched
    /\ call.item.qa_material_name = <<"a", " ", "7", " ", "i">>
    /\ Len(call.supplier_bom) = 2
    /\ call.supplier_bom[1].description = <<"a">>
    /\ call.supplier_bom[2].description = <<"7", " ", "A">>
    /\ ret.supplier_matches = 1
    /\ ret.supplier_list[1].confidence_score.num * 3 =
           160 * ret.supplier_list[1].confidence_score.den

\* the material name and the part number _find_supplier_matches compares
\* the supplier rows with
NameCompared == lower(get(call.item.qa_material_name, <<>>))
PartCompared == get(call.item.part_number, <<>>)

\* the supplier rows the part-number rule of line 77 applies to
ByPartNumber ==
    {k \in 1..Len(call.supplier_bom) :
        /\ truthy(PartCompared)
        /\ truthy(call.supplier_bom[k].part_number)
        /\ PartCompared = call.supplier_bom[k].part_number}

\* the number of tokens of the description of row k, and the number of
\* tokens it shares with the material name
TokenCount(k) == Len(split(lower(call.supplier_bom[k].description)))
Common(k) ==
    Cardinality(words(NameCompared) \cap words(lower(call.supplier_bom[k].description)))

\* the confidence computed for row k
Score(k) ==
    confidence_of(NameCompared, PartCompared,
                  lower(call.supplier_bom[k].description),
                  call.supplier_bom[k].part_number)

\* the score the rule gives row k: 0.95 by the part numbers, else
\* min(0.9, common / max(token counts) * 0.8) by the shared tokens, else 0.0
RuleScore(k) ==
    IF k \in ByPartNumber THEN hundredths(95)
    ELSE LET common == Common(k)
             name_tokens == Len(split(NameCompared))
             tokens == TokenCount(k)
             longest == IF name_tokens > tokens THEN name_tokens ELSE tokens
             scaled == [raised |-> FALSE, num |-> common * 80, den |-> longest]
         IN  IF common > 0
             THEN IF scaled.num > 90 * scaled.den THEN hundredths(90) ELSE scaled
             ELSE hundredths(0)

\* a function of the supplier rows as a sequence in the order of the BOM
InBomOrder(per_row) == SelectSeq(per_row, LAMBDA value : TRUE)

\* the token counts, the shared tokens, the computed scores and the scores of
\* the rule, row by row
TokenCounts == InBomOrder([k \in 1..Len(call.supplier_bom) |-> TokenCount(k)])
Commons == InBomOrder([k \in 1..Len(call.supplier_bom) |-> Common(k)])
Scores == InBomOrder([k \in 1..Len(call.supplier_bom) |-> Score(k)])
RuleScores == InBomOrder([k \in 1..Len(call.supplier_bom) |-> RuleScore(k)])

\* the supplier match is the candidate of the supplier row with the score
\* and the type
CandidateOf(match, supplier_item, score, type) ==
    /\ match.supplier_description = supplier_item.description
    /\ match.supplier_part_number = supplier_item.part_number
    /\ match.confidence_score = score
    /\ match.match_type = type

\* C21: of two supplier rows scored by the description rule against the same
\* material name, with descriptions of the same number of tokens, the one
\* that shares at least as many tokens with the name scores at least as
\* much; a score above the threshold is the score the row is returned with.
C21_ScoreMonotone ==
    Matched =>
        LET by_part_number == ByPartNumber
            tokens == TokenCounts
            common == Commons
            score == Scores
        IN  \A k, j \in (1..Len(call.supplier_bom)) \ by_part_number :
                (tokens[k] = tokens[j] /\ common[k] <= common[j]) =>
                    /\ at_most(score[k], score[j])
                    /\ above(score[j], MinimumThreshold) =>
                          \E m \in 1..Len(ret.supplier_list) :
                              /\ ret.supplier_list[m].confidence_score = score[j]
                              /\ ret.supplier_list[m].supplier_description =
                                     call.supplier_bom[j].description

\* two descriptions of two tokens each against a name of two tokens: the one
\* sharing one token scores 0.4, the one sharing both scores 0.8
C21_Witness ==
    /\ Matched
    /\ Len(call.supplier_bom) = 2
    /\ ByPartNumber = {}
    /\ TokenCount(1) = 2 /\ TokenCount(2) = 2
    /\ Common(1) = 1 /\ Common(2) = 2
    /\ Score(1) = [raised |-> FALSE, num |-> 80, den |-> 2]
    /\ ret.supplier_list[1].supplier_description = call.supplier_bom[2].description

\* C22: every supplier row is scored 0.95 with match_type part_number when
\* both part numbers are non-empty and equal, case included; otherwise
\* min(0.9, common / max(token counts) * 0.8) with match_type description when
\* the lower-cased names share a token; otherwise 0.0.  The candidates
\* returned are the rows scored above the threshold, each with that score and
\* type: a candidate is tagged part_number exactly when the part-number rule
\* produced it.
C22_ScoreAndType ==
    Matched =>
        LET bom == call.supplier_bom
            list == ret.supplier_list
            by_part_number == ByPartNumber
            rule == RuleScores
            type == [k \in 1..Len(bom) |->
                        IF k \in by_part_number THEN "part_number" ELSE "description"]
            passing == {k \in 1..Len(bom) : above(rule[k], MinimumThreshold)}
        IN  /\ Scores = rule
            /\ \A k \in passing :
                  \E m \in 1..Len(list) : CandidateOf(list[m], bom[k], rule[k], type[k])
            /\ \A m \in 1..Len(list) :
                  \E k \in passing : CandidateOf(list[m], bom[k], rule[k], type[k])
            /\ Len(list) = Cardinality(passing)
            /\ \A m \in 1..Len(list) :
                  list[m].match_type = "part_number" <=>
                      \E k \in passing \cap by_part_number :
                          CandidateOf(list[m], bom[k], rule[k], type[k])

\* a part number that differs in case only is no part-number match: the row
\* is a candidate by its description, with score 0.8
C22_Witness ==
    /\ Matched
    /\ call.item.part_number = <<"p">>
    /\ Len(call.supplier_bom) = 1
    /\ call.supplier_bom[1].part_number = <<"P">>
    /\ Len(ret.supplier_list) = 1
    /\ ret.supplier_list[1].match_type = "description"
    /\ ret.supplier_list[1].confidence_score = [raised |-> FALSE, num |-> 80, den |-> 1]

\* C23: the candidates returned are the passing rows of the BOM in the order
\* of their scores, highest first, rows of equal score in the order of the
\* BOM; the supplier candidate that becomes the best match is the earliest
\* BOM row among those with the highest score.
C23_StableDescending ==
    Matched =>
        LET bom == call.supplier_bom
            list == ret.supplier_list
            rule == RuleScores
            passing == {k \in 1..Len(bom) : above(rule[k], MinimumThreshold)}
            earliest_highest ==
                CHOOSE k \in passing :
                    /\ \A j \in passing : at_most(rule[j], rule[k])
                    /\ \A j \in passing : (j < k) => ~at_most(rule[k], rule[j])
        IN  /\ \E row \in [1..Len(list) -> passing] :
                  /\ \A m \in 1..Len(list) :
                        /\ list[m].supplier_description = bom[row[m]].description
                        /\ list[m].supplier_part_number = bom[row[m]].part_number
                        /\ list[m].confidence_score = rule[row[m]]
                  /\ \A m, n \in 1..Len(list) :
                        (m < n) =>
                            /\ row[m] # row[n]
                            /\ at_most(rule[row[n]], rule[row[m]])
                            /\ (rule[row[n]] = rule[row[m]]) => row[m] < row[n]
            /\ (~empty(ret.best_match) /\ ret.best_match.match_source = "supplier_bom") =>
                  /\ ret.best_match.supplier_description = bom[earliest_highest].description
                  /\ ret.best_match.supplier_part_number = bom[earliest_highest].part_number
                  /\ ret.best_match.confidence_score = rule[earliest_highest]

\* two rows with the material's part number and different descriptions both
\* score 0.95: they are returned in the order of the BOM, and the first is
\* the best match
C23_Witness ==
    /\ Matched
    /\ Len(call.supplier_bom) = 2
    /\ ByPartNumber = {1, 2}
    /\ call.supplier_bom[1].description # call.supplier_bom[2].description
    /\ Len(ret.supplier_list) = 2
    /\ ret.supplier_list[1].supplier_description = call.supplier_bom[1].description
    /\ ret.best_match.match_source = "supplier_bom"
    /\ ret.best_match.supplier_description = call.supplier_bom[1].description

(***************************************************************************)
(* Properties of the extraction step.                                       *)
(***************************************************************************)
Extracted == call.op = "process_translated_content"

\* C25 as claimed: no two materials process_translated_content hands on have
\* names with the same normalized form, and of the materials extracted with
\* one normalized name the first is the one kept.
C25_DeduplicatedByNormalizedName ==
    Extracted =>
        LET all == all_materials(call.answers)
            normalized(material) == normalize_material_name(material.name)
        IN  /\ \A j, k \in 1..Len(ret) :
                  (j # k) => normalized(ret[j]) # normalized(ret[k])
            /\ \A k \in 1..Len(ret) :
                  \E n \in 1..Len(all) :
                      /\ all[n] = ret[k]
                      /\ \A m \in 1..(n - 1) : normalized(all[m]) # normalized(ret[k])
            /\ \A n \in 1..Len(all) :
                  \E k \in 1..Len(ret) : normalized(ret[k]) = normalized(all[n])

\* C26 as claimed: every material handed on carries the label, the
\* confidence level and the action path that _classify_material gives for
\* the material's own attributes, the demo material included.
C26_ClassifiedByTable ==
    Extracted =>
        \A k \in 1..Len(ret) :
            LET outcome == _classify_material(ret[k])
            IN  /\ ret[k].classification_label = outcome.label
                /\ ret[k].confidence_level = outcome.confidence_level
                /\ ret[k].action_path_rag = outcome.action_path

\* the match result shows no best match: confidence 0.0, no supplier
\* description, no supplier part number, the reasoning of no match
NoBestMatch ==
    /\ ret.confidence_score = hundredths(0)
    /\ ret.supplier_description = <<>>
    /\ ret.supplier_part_number = <<>>
    /\ ret.reasoning.text = "No suitable match found in knowledge base or supplier BOM"

\* C28: a match result shows no best match exactly when the list of
\* knowledge-base matches is empty and no supplier row scores above 0.7, and
\* then none of the four fields says otherwise; a result of source no_match
\* shows no best match, and a result that shows none has source no_match or
\* supplier_bom.
C28_BestMatchAbsent ==
    Matched =>
        LET rule == RuleScores
            strong == {k \in 1..Len(call.supplier_bom) :
                          above(rule[k], SupplierPreferred)}
        IN  /\ NoBestMatch <=> (call.kb_matches = <<>> /\ strong = {})
            /\ NoBestMatch <=> empty(ret.best_match)
            /\ ~NoBestMatch =>
                  /\ above(ret.confidence_score, 0)
                  /\ ret.reasoning.text #
                         "No suitable match found in knowledge base or supplier BOM"
            /\ (ret.match_source = "no_match") => NoBestMatch
            /\ NoBestMatch => ret.match_source \in {"no_match", "supplier_bom"}

\* a supplier row scores 0.4, above the threshold and not above 0.7, and
\* the knowledge base has nothing: a supplier match is counted, the source
\* is supplier_bom and there is no best match
C28_Witness ==
    /\ Matched
    /\ call.kb_matches = <<>>
    /\ ret.supplier_matches = 1
    /\ ret.supplier_list[1].confidence_score = [raised |-> FALSE, num |-> 80, den |-> 2]
    /\ ret.match_source = "supplier_bom"
    /\ NoBestMatch

(***************************************************************************)
(* Properties of the calls of match_items_with_knowledge_base.              *)
(***************************************************************************)

\* what a call has handed back: the list it returned, nothing when an
\* exception left it
Output(run) == IF run.pc = "returned" THEN run.enhanced_matches ELSE <<>>

Ended(run) == run.pc \in {"returned", "raised"}

\* C14 as claimed: the knowledge-base matches found for the material at
\* position k of a batch are records of other runs or the records this run
\* inserted for positions before k, and never the record this run inserted
\* for position k.
C14_NeverMatchesItself ==
    \A w \in Workflows :
        LET run == runs[w]
        IN  \A k \in 1..Len(run.enhanced_matches) :
                \A j \in 1..Len(run.enhanced_matches[k].kb_matches) :
                    LET found == run.enhanced_matches[k].kb_matches[j]
                    IN  /\ k <= Len(run.new_item_ids) => found.id # run.new_item_ids[k]
                        /\ \/ found.workflow_id # w
                           \/ \E e \in 1..(k - 1) :
                                 e <= Len(run.new_item_ids) /\ found.id = run.new_item_ids[e]

\* C15 as claimed: whatever the store does, no exception leaves a call of
\* match_items_with_knowledge_base, and what it returns has one match result
\* for each material, in the order of the batch, with knowledge_base_matches
\* 0 for a material whose lookup failed.
C15_RunCompletes ==
    \A w \in Workflows :
        LET run == runs[w]
        IN  /\ run.pc # "raised"
            /\ run.pc = "returned" =>
                  /\ Len(run.enhanced_matches) = Len(run.extracted_items)
                  /\ \A k \in 1..Len(run.enhanced_matches) :
                        /\ run.enhanced_matches[k].item = run.extracted_items[k]
                        /\ run.find_errs[k] # "none" =>
                              run.enhanced_matches[k].knowledge_base_matches = 0

\* C18 as claimed: when a call of match_items_with_knowledge_base has ended,
\* every material of the batch whose own matching raises no exception has
\* its match result in what the call handed back, whatever happened to the
\* other materials of the batch.
C18_FailuresIsolated ==
    \A w \in Workflows :
        LET run == runs[w]
        IN  Ended(run) =>
                \A k \in 1..Len(run.extracted_items) :
                    match_result(run.extracted_items[k], <<>>, run.supplier_bom).err = "none"
                        => \E j \in 1..Len(Output(run)) :
                              Output(run)[j].item = run.extracted_items[k]

\* the rows stored under a workflow id
StoredBy(w) == {r \in 1..Len(items) : items[r].workflow_id = w}

\* C19 as claimed: however the steps of two calls with different workflow
\* ids interleave, what a call stores depends on that call alone.  Unless
\* its own insert failed, on a row of its own batch or for want of a
\* database, every material of the call is stored exactly once, under the
\* call's workflow id and with an id no other row has, and the ids returned
\* to the call are those of its own rows in the order of its batch; no row
\* of the other call or of an earlier run is lost or changed.
C19_RunsIndependent ==
    /\ \A w \in Workflows :
          LET run == runs[w]
          IN  IF run.pc # "idle" /\ run.add_err \notin {"IntegrityError", "OperationalError"}
              THEN /\ Len(run.new_item_ids) = Len(run.extracted_items)
                   /\ Cardinality(StoredBy(w)) = Len(run.extracted_items)
                   /\ \A k \in 1..Len(run.new_item_ids) :
                         /\ Cardinality({r \in 1..Len(items) :
                                           items[r].id = run.new_item_ids[k]}) = 1
                         /\ \E r \in StoredBy(w) :
                               /\ items[r].id = run.new_item_ids[k]
                               /\ items[r].material_name =
                                      get(run.extracted_items[k].qa_material_name, <<>>)
                         /\ \A e \in 1..(k - 1) : run.new_item_ids[e] < run.new_item_ids[k]
              ELSE StoredBy(w) = {} /\ run.new_item_ids = <<>>
    /\ \A r, q \in 1..Len(items) : r # q => items[r].id # items[q].id
    /\ \A h \in 1..Len(issued) :
          \E r \in 1..Len(items) :
              /\ items[r].id = issued[h].id
              /\ items[r].workflow_id = issued[h].workflow_id
              /\ issued[h].workflow_id = "w0" =>
                    items[r].material_name = PriorMaterial.qa_material_name

\* C27: add_items is all-or-nothing.  When the insert of a call's batch has
\* failed, on any row or for want of a database, the list returned to the
\* call is empty, the store holds what it held before the call, sequence
\* included, and no row of the batch is seen by the lookups the call makes
\* afterwards or counted by the statistics, also while the connection of the
\* failed insert is still open.
C27_AllOrNothing ==
    LET run == runs["w1"]
        stats == get_processing_stats(items, item_matches, FALSE).ret
    IN  (run.pc # "idle" /\ run.add_err # "none") =>
            /\ run.new_item_ids = <<>>
            /\ StoredBy("w1") = {}
            /\ \E p \in 0..MaxPrior :
                  /\ items = shift_created_at(prior_db(p).rows, p - 1)
                  /\ seq = prior_db(p).sequence
                  /\ stats.total_items = p
                  /\ stats.total_workflows = IF p = 0 THEN 0 ELSE 1
            /\ \A k \in 1..Len(run.enhanced_matches) :
                  \A m \in 1..Len(run.enhanced_matches[k].kb_matches) :
                      run.enhanced_matches[k].kb_matches[m].workflow_id = "w0"

\* the second row of a batch violated NOT NULL after the first was written:
\* the lookup of the first material's name, made while the connection is
\* still open, finds the rows of the earlier runs and no other
C27_Witness ==
    LET run == runs["w1"]
    IN  /\ run.extracted_items = <<NamedA, NullName>>
        /\ run.add_err = "IntegrityError"
        /\ run.connection = "in transaction"
        /\ run.new_item_ids = <<>>
        /\ Len(run.enhanced_matches) = 1
        /\ run.enhanced_matches[1].knowledge_base_matches > 0
        /\ run.find_errs[1] = "none"
        /\ Len(items) = MaxPrior
        /\ seq = MaxPrior

(***************************************************************************)
(* Properties of the workflow registry.                                     *)
(***************************************************************************)

\* C30 as claimed: in every state, a workflow whose status is completed has
\* progress 100 and current_stage completed, and a workflow whose status is
\* error has current_stage error and progress 0, the states between the
\* deferred progress updates included.
C30_RegistryConsistent ==
    \A w \in Workflows :
        /\ workflows[w].status = "completed" =>
              workflows[w].progress = 100 /\ workflows[w].current_stage = "completed"
        /\ workflows[w].status = "error" =>
              workflows[w].current_stage = "error" /\ workflows[w].progress = 0

=============================================================================
